---- MODULE Spec2Model ----
(***************************************************************************)
(* Keep-alive connection pool of fibers_http_client.                       *)
(*                                                                         *)
(* The module models                                                       *)
(*   - ConnectionPoolState (src/src/connection_pool.rs): the ordered map   *)
(*     of pooled connections, the eviction heap, the slot counter;         *)
(*   - the pool actor ConnectionPool: acquire, handle_command, the timer;  *)
(*   - RentedConnection and its Drop, the Connect task, the metrics;       *)
(*   - the request future of request.rs as far as it owns a connection.    *)
(*                                                                         *)
(* Two specifications are given.  Spec is the whole system: requests send  *)
(* Acquire commands, the actor serves them, connect tasks complete,        *)
(* handles are dropped.  StateSpec drives ConnectionPoolState directly,    *)
(* the way the unit tests of connection_pool.rs do.                        *)
(***************************************************************************)
EXTENDS Integers, Sequences, FiniteSets, TLC

\* ------------------------------------------------------------------ bounds
NumAddrs == 2       \* peer addresses, ordered as (IpAddr, port) orders them
NumRequests == 2    \* request futures created in Spec
MaxPoolSize == 2    \* largest max_pool_size a pool is built with
MaxKeepalive == 1   \* largest keepalive_timeout (seconds) of StateSpec
MaxTime == 2        \* ticks of the keepalive timer in StateSpec
MaxTicks == 1       \* ticks of the keepalive timer in Spec
MaxSlots == 3       \* slots allocated by the StateSpec driver
MaxSeqno == 3       \* pool_connection calls made by the StateSpec driver
MaxFields == 2      \* header fields of a response
MaxIters == 2       \* iterations of the loop of Execute::poll in one call
MaxUserFields == 2  \* header fields given to a RequestBuilder
MaxCycles == 20     \* lend, re-pool and tick cycles of CycleSpec

\* ------------------------------------------------------- program constants
TIMER_INTERVAL_SECS == 1

Addrs == 1..NumAddrs
Requests == 1..NumRequests

VARIABLES
    max_pool_size,      \* ConnectionPool.max_pool_size
    keepalive_timeout,  \* ConnectionPool.keepalive_timeout, in seconds
    state,              \* ConnectionPool.state : ConnectionPoolState
    metrics,            \* ConnectionPool.metrics
    command_rx,         \* the command channel, oldest command first
    connects,           \* spawned Connect tasks not yet completed: addr, reply_tx
    requests,           \* the request futures
    ret                 \* StateSpec: the value the last call returned

vars == <<max_pool_size, keepalive_timeout, state, metrics, command_rx,
          connects, requests, ret>>

\* ------------------------------------------------------------- connections
\* ConnectionState
InUse == "InUse"
Recyclable == "Recyclable"
Closed == "Closed"

\* Connection::new: a fresh connection is InUse.
NewConnection(id, addr) == [id |-> id, peer_addr |-> addr, state |-> InUse]

\* Connection::set_state
set_state(c, s) == [c EXCEPT !.state = s]

\* Option::None for a connection
NoConn == [id |-> 0, peer_addr |-> 0, state |-> "None"]

\* --------------------------------------------------------------- PoolKey
\* PoolKey::new: (addr, port) is one ordered address; pooled_time; seqno.
NewPoolKey(addr, now, seqno) == [addr |-> addr, pooled_time |-> now, seqno |-> seqno]

\* derive(Ord) for PoolKey: address, then pooled_time, then seqno.
KeyLess(a, b) ==
    \/ a.addr < b.addr
    \/ a.addr = b.addr /\ a.pooled_time < b.pooled_time
    \/ a.addr = b.addr /\ a.pooled_time = b.pooled_time /\ a.seqno < b.seqno

\* PoolKey::range(addr) applied to the map: the keys from (addr, 0, 0) up to
\* (addr, u64::MAX s, u64::MAX), which are the keys of that address.
range(pooled, addr) == {k \in DOMAIN pooled : k.addr = addr}

\* PoolKey::to_queue_entry
to_queue_entry(key) == [pooled_time |-> key.pooled_time, addr |-> key.addr, seqno |-> key.seqno]

\* QueueEntry::to_pool_key
to_pool_key(entry) == [addr |-> entry.addr, pooled_time |-> entry.pooled_time, seqno |-> entry.seqno]

\* Mutant: pooled_time compared without Reverse.
EntryLess_NoReverse(a, b) ==
    \/ a.pooled_time < b.pooled_time
    \/ a.pooled_time = b.pooled_time /\ a.addr < b.addr
    \/ a.pooled_time = b.pooled_time /\ a.addr = b.addr /\ a.seqno < b.seqno

\* derive(Ord) for QueueEntry: Reverse(pooled_time), then address, then seqno.
EntryLess(a, b) ==
    \/ a.pooled_time > b.pooled_time
    \/ a.pooled_time = b.pooled_time /\ a.addr < b.addr
    \/ a.pooled_time = b.pooled_time /\ a.addr = b.addr /\ a.seqno < b.seqno

\* BinaryHeap: a max-heap, kept as the sequence of its entries, greatest first.
HeapPush(q, e) ==
    SelectSeq(q, LAMBDA x : ~EntryLess(x, e)) \o <<e>> \o SelectSeq(q, LAMBDA x : EntryLess(x, e))

HeapPeek(q) == Head(q)

HeapPop(q) == Tail(q)

\* --------------------------------------------------- ConnectionPoolState
\* ConnectionPoolState::new.  panicked: an assertion of the state failed;
\* dropped: the ConnectionPool that owns the state was dropped.
EmptyMap == [k \in {} |-> NoConn]

NewState ==
    [pooled_connections |-> EmptyMap,
     timeout_queue |-> <<>>,
     elapsed_time |-> 0,
     pool_size |-> 0,
     seqno |-> 0,
     panicked |-> FALSE,
     dropped |-> FALSE]

MapRemove(m, key) == [k \in DOMAIN m \ {key} |-> m[k]]

MapInsert(m, key, c) == [k \in DOMAIN m \cup {key} |-> IF k = key THEN c ELSE m[k]]

MinKey(S) == CHOOSE k \in S : \A o \in S : o = k \/ KeyLess(k, o)

MaxKey(S) == CHOOSE k \in S : \A o \in S : o = k \/ KeyLess(o, k)

allocate_connection(st) == [st EXCEPT !.pool_size = @ + 1]

\* assert!(self.pool_size > 0): a failed assertion panics the actor.
release_connection(st) ==
    IF st.pool_size > 0
    THEN [st EXCEPT !.pool_size = @ - 1]
    ELSE [st EXCEPT !.panicked = TRUE]

\* Mutant: the connection lent stays in the map.
lend_pooled_connection_NoRemove(st, addr) ==
    LET keys == range(st.pooled_connections, addr)
    IN IF keys # {}
       THEN [st |-> st, conn |-> st.pooled_connections[MaxKey(keys)]]
       ELSE [st |-> st, conn |-> NoConn]

\* Mutant: the first key of the range is taken (.rev() left out).
lend_pooled_connection_Oldest(st, addr) ==
    LET keys == range(st.pooled_connections, addr)
    IN IF keys # {}
       THEN LET key == MinKey(keys)
            IN [st |-> [st EXCEPT !.pooled_connections = MapRemove(@, key)],
                conn |-> st.pooled_connections[key]]
       ELSE [st |-> st, conn |-> NoConn]

\* Returns the state and the connection lent (NoConn for None).
lend_pooled_connection(st, addr) ==
    LET keys == range(st.pooled_connections, addr)
    IN IF keys # {}
       THEN LET key == MaxKey(keys)
            IN [st |-> [st EXCEPT !.pooled_connections = MapRemove(@, key)],
                conn |-> st.pooled_connections[key]]
       ELSE [st |-> st, conn |-> NoConn]

\* Option<PoolKey> as a set of at most one key.
get_oldest(pooled, addr) ==
    LET keys == range(pooled, addr)
    IN IF keys # {} THEN {MinKey(keys)} ELSE {}

pool_contains(st, addr) == range(st.pooled_connections, addr) # {}

\* Mutant: a key is pushed only onto an empty heap.
pool_connection_PushIfEmpty(st, addr, connection) ==
    LET key == NewPoolKey(addr, st.elapsed_time, st.seqno)
        q == IF st.timeout_queue = <<>>
             THEN HeapPush(st.timeout_queue, to_queue_entry(key))
             ELSE st.timeout_queue
    IN [st EXCEPT !.seqno = @ + 1,
                  !.timeout_queue = q,
                  !.pooled_connections = MapInsert(@, key, connection)]

\* ConnectionPoolState::pool_connection
pool_connection(st, addr, connection) ==
    LET key == NewPoolKey(addr, st.elapsed_time, st.seqno)
        q == IF ~pool_contains(st, addr)
             THEN HeapPush(st.timeout_queue, to_queue_entry(key))
             ELSE st.timeout_queue
    IN [st EXCEPT !.seqno = @ + 1,
                  !.timeout_queue = q,
                  !.pooled_connections = MapInsert(@, key, connection)]

\* Mutant: the peer's next oldest key is not pushed after a pop.
PopEntry_NoRepush(st) ==
    LET key == to_pool_key(HeapPeek(st.timeout_queue))
        pooled == IF key \in DOMAIN st.pooled_connections
                  THEN MapRemove(st.pooled_connections, key)
                  ELSE st.pooled_connections
    IN [st EXCEPT !.pooled_connections = pooled, !.timeout_queue = HeapPop(@)]

\* One iteration of the loops of discard_oldest_pooled_connection and tick:
\* the popped entry's key is removed from the map, and the oldest key the
\* entry's peer still has is pushed.
PopEntry(st) ==
    LET entry == HeapPeek(st.timeout_queue)
        key == to_pool_key(entry)
        pooled == IF key \in DOMAIN st.pooled_connections
                  THEN MapRemove(st.pooled_connections, key)
                  ELSE st.pooled_connections
        popped == HeapPop(st.timeout_queue)
        oldest == get_oldest(pooled, entry.addr)
        q == IF oldest # {}
             THEN HeapPush(popped, to_queue_entry(CHOOSE k \in oldest : TRUE))
             ELSE popped
    IN [st EXCEPT !.pooled_connections = pooled, !.timeout_queue = q]

\* Mutant: the evicted connection's slot is not released.
RECURSIVE discard_oldest_pooled_connection_NoRelease(_)
discard_oldest_pooled_connection_NoRelease(st) ==
    IF st.timeout_queue = <<>>
    THEN [st |-> st, conn |-> NoConn]
    ELSE LET key == to_pool_key(HeapPeek(st.timeout_queue))
         IN IF key \in DOMAIN st.pooled_connections
            THEN [st |-> PopEntry(st), conn |-> st.pooled_connections[key]]
            ELSE discard_oldest_pooled_connection_NoRelease(PopEntry(st))

\* while let Some(entry) = self.timeout_queue.pop() { ... }
RECURSIVE discard_oldest_pooled_connection(_)
discard_oldest_pooled_connection(st) ==
    IF st.timeout_queue = <<>>
    THEN [st |-> st, conn |-> NoConn]
    ELSE LET key == to_pool_key(HeapPeek(st.timeout_queue))
             removed == key \in DOMAIN st.pooled_connections
             next == PopEntry(st)
         IN IF removed
            THEN [st |-> release_connection(next), conn |-> st.pooled_connections[key]]
            ELSE discard_oldest_pooled_connection(next)

\* Mutant: an entry expires as soon as its keepalive time is reached.
RECURSIVE TickLoop_NonStrict(_, _, _)
TickLoop_NonStrict(st, timeout, removed_count) ==
    IF st.timeout_queue = <<>>
    THEN [st |-> st, removed |-> removed_count]
    ELSE LET entry == HeapPeek(st.timeout_queue)
         IN IF entry.pooled_time + timeout <= st.elapsed_time
            THEN LET removed == to_pool_key(entry) \in DOMAIN st.pooled_connections
                     next == PopEntry(st)
                 IN IF removed
                    THEN TickLoop_NonStrict(release_connection(next), timeout, removed_count + 1)
                    ELSE TickLoop_NonStrict(next, timeout, removed_count)
            ELSE [st |-> st, removed |-> removed_count]

\* The loop of tick: entries are popped while the oldest one is expired.
RECURSIVE TickLoop(_, _, _)
TickLoop(st, timeout, removed_count) ==
    IF st.timeout_queue = <<>>
    THEN [st |-> st, removed |-> removed_count]
    ELSE LET entry == HeapPeek(st.timeout_queue)
         IN IF entry.pooled_time + timeout < st.elapsed_time
            THEN LET removed == to_pool_key(entry) \in DOMAIN st.pooled_connections
                     next == PopEntry(st)
                 IN IF removed
                    THEN TickLoop(release_connection(next), timeout, removed_count + 1)
                    ELSE TickLoop(next, timeout, removed_count)
            ELSE [st |-> st, removed |-> removed_count]

tick(st, duration, timeout) ==
    TickLoop([st EXCEPT !.elapsed_time = @ + duration], timeout, 0)

\* ---------------------------------------------------------------- metrics
\* ConnectionPoolMetrics::new: every counter starts at 0.
NewMetrics ==
    [allocated |-> 0, closed |-> 0, connect_failed |-> 0, request_failed |-> 0,
     expired |-> 0, kicked_out |-> 0, lent |-> 0, returned |-> 0,
     no_available |-> 0]

\* The sum of the counters of released connections.
released_connections(m) ==
    m.closed + m.connect_failed + m.request_failed + m.expired + m.kicked_out

saturating_sub(a, b) == IF a >= b THEN a - b ELSE 0

\* ConnectionPoolMetrics::pool_size
metrics_pool_size(m) == saturating_sub(m.allocated, released_connections(m))

\* ConnectionPoolMetrics::in_use_connetions
in_use_connetions(m) == saturating_sub(m.lent, m.returned)

\* ---------------------------------------------------------------- commands
\* enum DiscardReason
ReasonClosed == "Closed"
ReasonConnectFailed == "ConnectFailed"
ReasonRequestFailed == "RequestFailed"

\* enum Command
AcquireCmd(addr, reply_tx) ==
    [type |-> "Acquire", addr |-> addr, reply_tx |-> reply_tx, reason |-> "", connection |-> NoConn]

ReuseCmd(connection) ==
    [type |-> "Reuse", addr |-> 0, reply_tx |-> 0, reason |-> "", connection |-> connection]

DiscardCmd(reason) ==
    [type |-> "Discard", addr |-> 0, reply_tx |-> 0, reason |-> reason, connection |-> NoConn]

\* Mutant: the connection is sent back for reuse whatever its state.
DropCommand_AlwaysReuse(connection) == ReuseCmd(connection)

\* Mutant: a connection still InUse is sent back for reuse.
DropCommand_InUseReuse(connection) ==
    CASE connection.state = Closed -> DiscardCmd(ReasonClosed)
      [] OTHER -> ReuseCmd(connection)

\* impl Drop for RentedConnection: the command sent for the connection held.
DropCommand(connection) ==
    CASE connection.state = Recyclable -> ReuseCmd(connection)
      [] connection.state = Closed -> DiscardCmd(ReasonClosed)
      [] connection.state = InUse -> DiscardCmd(ReasonRequestFailed)

\* ------------------------------------------------------- the value returned
\* ret holds what the call made by the last step returned, where a
\* specification records it, and NoRet after any other step.
NoRet ==
    [op |-> "none", addr |-> 0, conn |-> NoConn, removed |-> 0,
     io |-> <<>>, result |-> "", kind |-> ""]

\* ------------------------------------------------------------ the requests
\* A request future: pc is where it stands, connection the RentedConnection
\* it holds (in its reply slot or in its Execute), NoConn when it holds none.
\*   new        not yet created
\*   acquiring  Acquire sent, reply slot empty
\*   executing  the exchange is under way on the rented connection
\*   resolved   the caller has the result of the exchange or the error of the
\*              acquisition; the future is not yet dropped
\*   timedout   the request timeout fired and the caller has the Timeout
\*              error; the future, not yet dropped, still holds its reply
\*              slot or its Execute
\*   dropped    the future is dropped
\* result is what the future resolved with: "" while it has not resolved,
\* "Ok", or the ErrorKind of its error.
NewRequest == [pc |-> "new", connection |-> NoConn, result |-> ""]

\* mpsc::Sender::send with `let _ =`: the commands join the channel q, and
\* are dropped when the receiver went with the ConnectionPool.
send(q, commands) == IF state.dropped THEN q ELSE q \o commands

\* Mutant: a handle delivered to a dropped receiver is lost without a command.
ReplyOk_Forget(req, rented) ==
    CASE req.pc = "acquiring" ->
            [req |-> [req EXCEPT !.pc = "executing", !.connection = rented], sent |-> <<>>]
      [] req.pc = "timedout" ->
            [req |-> [req EXCEPT !.connection = rented], sent |-> <<>>]
      [] OTHER ->
            [req |-> req, sent |-> <<>>]

\* oneshot reply_tx.exit(Ok(rented)) as seen by request r.  The result is the
\* request and the commands the delivery sends: a handle delivered to a dropped
\* receiver is dropped at once.
ReplyOk(req, rented) ==
    CASE req.pc = "acquiring" ->
            [req |-> [req EXCEPT !.pc = "executing", !.connection = rented], sent |-> <<>>]
      [] req.pc = "timedout" ->
            [req |-> [req EXCEPT !.connection = rented], sent |-> <<>>]
      [] OTHER ->
            [req |-> req, sent |-> <<DropCommand(rented)>>]

\* reply_tx.exit(Err(e)) as seen by request r; kind is the ErrorKind of e.
ReplyErr(req, kind) ==
    IF req.pc = "acquiring"
    THEN [req EXCEPT !.pc = "resolved", !.result = kind]
    ELSE req

\* ------------------------------------------------------------ the pool actor
\* Mutant: a slot is allocated without looking at max_pool_size.
acquire_NoLimit(st, m, max, addr) ==
    LET lend == lend_pooled_connection(st, addr)
    IN IF lend.conn # NoConn
       THEN [st |-> lend.st, metrics |-> m, result |-> "Some",
             conn |-> set_state(lend.conn, InUse)]
       ELSE [st |-> allocate_connection(st),
             metrics |-> [m EXCEPT !.allocated = @ + 1],
             result |-> "None", conn |-> NoConn]

\* Mutant: a full pool fails the Acquire without trying to evict.
acquire_NoKickOut(st, m, max, addr) ==
    LET lend == lend_pooled_connection(st, addr)
    IN IF lend.conn # NoConn
       THEN [st |-> lend.st, metrics |-> m, result |-> "Some",
             conn |-> set_state(lend.conn, InUse)]
       ELSE IF st.pool_size = max
            THEN [st |-> st,
                  metrics |-> [m EXCEPT !.no_available = @ + 1],
                  result |-> "Err", conn |-> NoConn]
            ELSE [st |-> allocate_connection(st),
                  metrics |-> [m EXCEPT !.allocated = @ + 1],
                  result |-> "None", conn |-> NoConn]

\* Mutant: a full pool evicts before it looks for a pooled connection.
acquire_EvictBeforeLend(st, m, max, addr) ==
    LET lend == lend_pooled_connection(st, addr)
        d == discard_oldest_pooled_connection(st)
    IN IF st.pool_size = max
       THEN IF d.conn # NoConn
            THEN [st |-> allocate_connection(d.st),
                  metrics |-> [m EXCEPT !.kicked_out = @ + 1, !.allocated = @ + 1],
                  result |-> "None", conn |-> NoConn]
            ELSE [st |-> d.st,
                  metrics |-> [m EXCEPT !.no_available = @ + 1],
                  result |-> "Err", conn |-> NoConn]
       ELSE IF lend.conn # NoConn
       THEN [st |-> lend.st, metrics |-> m, result |-> "Some",
             conn |-> set_state(lend.conn, InUse)]
       ELSE [st |-> allocate_connection(st),
             metrics |-> [m EXCEPT !.allocated = @ + 1],
             result |-> "None", conn |-> NoConn]

\* Mutant: a full pool counts a kick-out whether or not it evicted.
acquire_FailKicksOut(st, m, max, addr) ==
    LET lend == lend_pooled_connection(st, addr)
    IN IF lend.conn # NoConn
       THEN [st |-> lend.st, metrics |-> m, result |-> "Some",
             conn |-> set_state(lend.conn, InUse)]
       ELSE IF st.pool_size = max
            THEN LET d == discard_oldest_pooled_connection(st)
                 IN IF d.conn # NoConn
                    THEN [st |-> allocate_connection(d.st),
                          metrics |-> [m EXCEPT !.kicked_out = @ + 1, !.allocated = @ + 1],
                          result |-> "None", conn |-> NoConn]
                    ELSE [st |-> d.st,
                          metrics |-> [m EXCEPT !.kicked_out = @ + 1, !.no_available = @ + 1],
                          result |-> "Err", conn |-> NoConn]
            ELSE [st |-> allocate_connection(st),
                  metrics |-> [m EXCEPT !.allocated = @ + 1],
                  result |-> "None", conn |-> NoConn]

\* Mutant: a pooled connection is lent in the state it was pooled in.
acquire_KeepState(st, m, max, addr) ==
    LET lend == lend_pooled_connection(st, addr)
    IN IF lend.conn # NoConn
       THEN [st |-> lend.st, metrics |-> m, result |-> "Some", conn |-> lend.conn]
       ELSE IF st.pool_size = max
            THEN LET d == discard_oldest_pooled_connection(st)
                 IN IF d.conn # NoConn
                    THEN [st |-> allocate_connection(d.st),
                          metrics |-> [m EXCEPT !.kicked_out = @ + 1, !.allocated = @ + 1],
                          result |-> "None", conn |-> NoConn]
                    ELSE [st |-> d.st,
                          metrics |-> [m EXCEPT !.no_available = @ + 1],
                          result |-> "Err", conn |-> NoConn]
            ELSE [st |-> allocate_connection(st),
                  metrics |-> [m EXCEPT !.allocated = @ + 1],
                  result |-> "None", conn |-> NoConn]

\* ConnectionPool::acquire.  result is "Some" (a pooled connection is lent),
\* "None" (a slot is reserved, the caller connects) or "Err"
\* (TemporarilyUnavailable).
acquire(st, m, max, addr) ==
    LET lend == lend_pooled_connection(st, addr)
    IN IF lend.conn # NoConn
       THEN [st |-> lend.st, metrics |-> m, result |-> "Some",
             conn |-> set_state(lend.conn, InUse)]
       ELSE IF st.pool_size = max
            THEN LET d == discard_oldest_pooled_connection(st)
                 IN IF d.conn # NoConn
                    THEN [st |-> allocate_connection(d.st),
                          metrics |-> [m EXCEPT !.kicked_out = @ + 1, !.allocated = @ + 1],
                          result |-> "None", conn |-> NoConn]
                    ELSE [st |-> d.st,
                          metrics |-> [m EXCEPT !.no_available = @ + 1],
                          result |-> "Err", conn |-> NoConn]
            ELSE [st |-> allocate_connection(st),
                  metrics |-> [m EXCEPT !.allocated = @ + 1],
                  result |-> "None", conn |-> NoConn]

\* Connect::new, with the closure that replies through reply_tx
NewConnect(addr, reply_tx) == [addr |-> addr, reply_tx |-> reply_tx]

\* Mutant: on a miss the slot is reserved and no connect task is spawned.
HandleAcquire_NoSpawn(command, rest) ==
    LET r == command.reply_tx
        a == acquire(state, metrics, max_pool_size, command.addr)
    IN /\ state' = a.st
       /\ command_rx' = rest
       /\ connects' = connects
       /\ CASE a.result = "Err" ->
                 /\ metrics' = a.metrics
                 /\ requests' = [requests EXCEPT ![r] = ReplyErr(@, "TemporarilyUnavailable")]
            [] a.result = "Some" ->
                 /\ metrics' = [a.metrics EXCEPT !.lent = @ + 1]
                 /\ requests' = [requests EXCEPT ![r] = ReplyOk(@, a.conn).req]
            [] a.result = "None" ->
                 /\ metrics' = [a.metrics EXCEPT !.lent = @ + 1]
                 /\ requests' = requests

\* Mutant: a pooled connection is handed over without counting it as lent.
HandleAcquire_HitNotCounted(command, rest) ==
    LET r == command.reply_tx
        a == acquire(state, metrics, max_pool_size, command.addr)
    IN /\ state' = a.st
       /\ CASE a.result = "Err" ->
                 /\ metrics' = a.metrics
                 /\ requests' = [requests EXCEPT ![r] = ReplyErr(@, "TemporarilyUnavailable")]
                 /\ command_rx' = rest
                 /\ connects' = connects
            [] a.result = "Some" ->
                 LET reply == ReplyOk(requests[r], a.conn)
                 IN /\ metrics' = a.metrics
                    /\ requests' = [requests EXCEPT ![r] = reply.req]
                    /\ command_rx' = rest \o reply.sent
                    /\ connects' = connects
            [] a.result = "None" ->
                 /\ metrics' = [a.metrics EXCEPT !.lent = @ + 1]
                 /\ connects' = connects \cup {NewConnect(command.addr, r)}
                 /\ command_rx' = rest
                 /\ requests' = requests

\* ConnectionPool::handle_command, Command::Acquire
HandleAcquire(command, rest) ==
    LET r == command.reply_tx
        a == acquire(state, metrics, max_pool_size, command.addr)
    IN /\ state' = a.st
       /\ CASE a.result = "Err" ->
                 /\ metrics' = a.metrics
                 /\ requests' = [requests EXCEPT ![r] = ReplyErr(@, "TemporarilyUnavailable")]
                 /\ command_rx' = rest
                 /\ connects' = connects
            [] a.result = "Some" ->
                 LET reply == ReplyOk(requests[r], a.conn)
                 IN /\ metrics' = [a.metrics EXCEPT !.lent = @ + 1]
                    /\ requests' = [requests EXCEPT ![r] = reply.req]
                    /\ command_rx' = rest \o reply.sent
                    /\ connects' = connects
            [] a.result = "None" ->
                 /\ metrics' = [a.metrics EXCEPT !.lent = @ + 1]
                 /\ connects' = connects \cup {NewConnect(command.addr, r)}
                 /\ command_rx' = rest
                 /\ requests' = requests

\* Mutant: a connection discarded as closed is counted under two reasons.
HandleDiscard_CountTwice(command, rest) ==
    /\ state' = release_connection(state)
    /\ metrics' =
         CASE command.reason = ReasonClosed ->
                 [metrics EXCEPT !.returned = @ + 1, !.closed = @ + 1, !.request_failed = @ + 1]
           [] command.reason = ReasonConnectFailed ->
                 [metrics EXCEPT !.returned = @ + 1, !.connect_failed = @ + 1]
           [] command.reason = ReasonRequestFailed ->
                 [metrics EXCEPT !.returned = @ + 1, !.request_failed = @ + 1]
    /\ command_rx' = rest
    /\ UNCHANGED <<connects, requests>>

\* ConnectionPool::handle_command, Command::Discard
HandleDiscard(command, rest) ==
    /\ state' = release_connection(state)
    /\ metrics' =
         CASE command.reason = ReasonClosed ->
                 [metrics EXCEPT !.returned = @ + 1, !.closed = @ + 1]
           [] command.reason = ReasonConnectFailed ->
                 [metrics EXCEPT !.returned = @ + 1, !.connect_failed = @ + 1]
           [] command.reason = ReasonRequestFailed ->
                 [metrics EXCEPT !.returned = @ + 1, !.request_failed = @ + 1]
    /\ command_rx' = rest
    /\ UNCHANGED <<connects, requests>>

\* Mutant: re-pooling a connection also releases its slot.
HandleReuse_Release(command, rest) ==
    /\ metrics' = [metrics EXCEPT !.returned = @ + 1]
    /\ state' = release_connection(
                    pool_connection(state, command.connection.peer_addr, command.connection))
    /\ command_rx' = rest
    /\ UNCHANGED <<connects, requests>>

\* ConnectionPool::handle_command, Command::Reuse
HandleReuse(command, rest) ==
    /\ metrics' = [metrics EXCEPT !.returned = @ + 1]
    /\ state' = pool_connection(state, command.connection.peer_addr, command.connection)
    /\ command_rx' = rest
    /\ UNCHANGED <<connects, requests>>

\* ConnectionPool::poll, the command loop: one command is received and handled.
HandleCommand ==
    /\ ~state.panicked
    /\ ~state.dropped
    /\ command_rx # <<>>
    /\ LET command == Head(command_rx)
           rest == Tail(command_rx)
       IN CASE command.type = "Acquire" -> HandleAcquire(command, rest)
            [] command.type = "Discard" -> HandleDiscard(command, rest)
            [] command.type = "Reuse" -> HandleReuse(command, rest)
    /\ UNCHANGED <<max_pool_size, keepalive_timeout>>
    /\ ret' = NoRet

\* Mutant: the connections a tick removed are not counted as expired.
PollTimer_NotCounted ==
    /\ ~state.panicked
    /\ ~state.dropped
    /\ state.elapsed_time < MaxTime
    /\ state' = tick(state, TIMER_INTERVAL_SECS, keepalive_timeout).st
    /\ metrics' = metrics

\* ConnectionPool::poll, the timer loop: the timer fired once.
PollTimer ==
    /\ ~state.panicked
    /\ ~state.dropped
    /\ state.elapsed_time < MaxTime
    /\ LET t == tick(state, TIMER_INTERVAL_SECS, keepalive_timeout)
       IN /\ state' = t.st
          /\ metrics' = [metrics EXCEPT !.expired = @ + t.removed]

Tick ==
    /\ state.elapsed_time < MaxTicks
    /\ PollTimer
    /\ UNCHANGED <<max_pool_size, keepalive_timeout, command_rx, connects, requests>>
    /\ ret' = NoRet

\* ------------------------------------------------------ the Connect task
\* Connect::poll, Ok(Async::Ready(stream)), and the closure that replies.
ConnectOk(t) ==
    /\ t \in connects
    /\ LET reply == ReplyOk(requests[t.reply_tx], NewConnection(t.reply_tx, t.addr))
       IN /\ requests' = [requests EXCEPT ![t.reply_tx] = reply.req]
          /\ command_rx' = send(command_rx, reply.sent)
    /\ connects' = connects \ {t}
    /\ UNCHANGED <<max_pool_size, keepalive_timeout, state, metrics>>
    /\ ret' = NoRet

\* Mutant: a failed connect forwards the error and sends no Discard.
ConnectFail_NoDiscard(t, kind) ==
    /\ t \in connects
    /\ requests' = [requests EXCEPT ![t.reply_tx] = ReplyErr(@, kind)]
    /\ connects' = connects \ {t}
    /\ UNCHANGED <<max_pool_size, keepalive_timeout, state, metrics, command_rx>>
    /\ ret' = NoRet

\* Mutant: the failed connect task releases its slot twice.
ConnectFail_TwoDiscards(t, kind) ==
    /\ t \in connects
    /\ command_rx' = send(command_rx, <<DiscardCmd(ReasonConnectFailed), DiscardCmd(ReasonConnectFailed)>>)
    /\ requests' = [requests EXCEPT ![t.reply_tx] = ReplyErr(@, kind)]
    /\ connects' = connects \ {t}
    /\ UNCHANGED <<max_pool_size, keepalive_timeout, state, metrics>>
    /\ ret' = NoRet

\* Connect::poll, Err(e): kind is "Other" for an error of TcpStream::connect
\* and "Timeout" when timeout_after(connect_timeout) fired.
ConnectFail(t, kind) ==
    /\ t \in connects
    /\ command_rx' = send(command_rx, <<DiscardCmd(ReasonConnectFailed)>>)
    /\ requests' = [requests EXCEPT ![t.reply_tx] = ReplyErr(@, kind)]
    /\ connects' = connects \ {t}
    /\ UNCHANGED <<max_pool_size, keepalive_timeout, state, metrics>>
    /\ ret' = NoRet

\* --------------------------------------------------- the request future
\* ConnectionPoolHandle::acquire_connection.  Requests are created in the
\* order of their numbers.  An Acquire that cannot be sent is dropped and
\* its reply_tx with it: reply_rx yields the error "ConnectionPool has been
\* dropped", of kind Other.
StartRequest(r, addr) ==
    /\ requests[r].pc = "new"
    /\ IF r = 1 THEN TRUE ELSE requests[r - 1].pc # "new"
    /\ command_rx' = send(command_rx, <<AcquireCmd(addr, r)>>)
    /\ requests' = [requests EXCEPT ![r] =
         IF state.dropped
         THEN ReplyErr([@ EXCEPT !.pc = "acquiring"], "Other")
         ELSE [@ EXCEPT !.pc = "acquiring"]]
    /\ UNCHANGED <<max_pool_size, keepalive_timeout, state, metrics, connects>>
    /\ ret' = NoRet

\* Mutant: the encoder is not asked whether it has drained its output.
do_close_IgnoreEncoder(encoder_idle, version, connection_field) ==
    \/ version = "V1_0" /\ connection_field # "keep-alive"
    \/ version = "V1_1" /\ connection_field = "close"

\* Execute::poll, the classification of a decoded response: TRUE for do_close.
\* version is "V1_0" or "V1_1"; connection_field is the value of the
\* Connection header field, "" when the response has none.
do_close(encoder_idle, version, connection_field) ==
    \/ ~encoder_idle
    \/ version = "V1_0" /\ connection_field # "keep-alive"
    \/ version = "V1_1" /\ connection_field = "close"

\* Execute::poll returning Ready(response).
ExecuteReady(r, encoder_idle, version, connection_field) ==
    /\ requests[r].pc = "executing"
    /\ requests' = [requests EXCEPT ![r] =
         [@ EXCEPT !.pc = "resolved",
                   !.result = "Ok",
                   !.connection = set_state(@, IF do_close(encoder_idle, version, connection_field)
                                               THEN Closed ELSE Recyclable)]]
    /\ UNCHANGED <<max_pool_size, keepalive_timeout, state, metrics, command_rx, connects>>
    /\ ret' = NoRet

\* Execute::poll returning Err of ErrorKind kind: the connection's state is
\* left as it is.
ExecuteErr(r, kind) ==
    /\ requests[r].pc = "executing"
    /\ requests' = [requests EXCEPT ![r] = [@ EXCEPT !.pc = "resolved", !.result = kind]]
    /\ UNCHANGED <<max_pool_size, keepalive_timeout, state, metrics, command_rx, connects>>
    /\ ret' = NoRet

\* Mutant: the timeout hands the connection of the exchange back as reusable.
RequestTimeout_Recycle(r) ==
    /\ requests[r].pc \in {"acquiring", "executing"}
    /\ requests' = [requests EXCEPT ![r] =
         [@ EXCEPT !.pc = "timedout", !.result = "Timeout",
                   !.connection = IF @ = NoConn THEN @ ELSE set_state(@, Recyclable)]]
    /\ UNCHANGED <<max_pool_size, keepalive_timeout, state, metrics, command_rx, connects>>
    /\ ret' = NoRet

\* RequestBuilder::execute, timeout_after firing: the future resolves with
\* Timeout and keeps what it holds until it is dropped.
RequestTimeout(r) ==
    /\ requests[r].pc \in {"acquiring", "executing"}
    /\ requests' = [requests EXCEPT ![r] = [@ EXCEPT !.pc = "timedout", !.result = "Timeout"]]
    /\ UNCHANGED <<max_pool_size, keepalive_timeout, state, metrics, command_rx, connects>>
    /\ ret' = NoRet

\* Mutant: a dropped handle sends its command and a Discard on top of it.
DropSends_DiscardToo(req) ==
    IF req.connection # NoConn
    THEN <<DropCommand(req.connection), DiscardCmd(ReasonClosed)>>
    ELSE <<>>

\* The commands sent when request future `req` is dropped.
DropSends(req) ==
    IF req.connection # NoConn THEN <<DropCommand(req.connection)>> ELSE <<>>

\* Mutant: a handle dropped with its request future sends no command.
DropRequest_Silent(r) ==
    /\ requests[r].pc \in {"acquiring", "timedout", "executing", "resolved"}
    /\ requests' = [requests EXCEPT ![r] = [NewRequest EXCEPT !.pc = "dropped"]]
    /\ UNCHANGED <<max_pool_size, keepalive_timeout, state, metrics, connects, command_rx>>
    /\ ret' = NoRet

\* The request future is dropped (after it resolved, or to cancel it): a
\* RentedConnection it holds is dropped with it.
DropRequest(r) ==
    /\ requests[r].pc \in {"acquiring", "timedout", "executing", "resolved"}
    /\ command_rx' = send(command_rx, DropSends(requests[r]))
    /\ requests' = [requests EXCEPT ![r] = [NewRequest EXCEPT !.pc = "dropped"]]
    /\ UNCHANGED <<max_pool_size, keepalive_timeout, state, metrics, connects>>
    /\ ret' = NoRet

\* ------------------------------------------------------ the execute engine
\* A header field of a response.
Field(name, value) == [name |-> name, value |-> value]

\* The header fields the responses carry.
Fields ==
    {Field("Connection", "close"), Field("connection", "close"),
     Field("Connection", "Close"), Field("Connection", "keep-alive"),
     Field("Connection", "Keep-Alive"), Field("Date", "close")}

\* The headers of at most n fields.
RECURSIVE Headers(_)
Headers(n) ==
    IF n = 0
    THEN {<<>>}
    ELSE LET shorter == Headers(n - 1)
         IN shorter \cup {Append(h, f) : h \in {x \in shorter : Len(x) = n - 1}, f \in Fields}

\* str::to_ascii_lowercase, on the strings of Fields and UserFields.
to_ascii_lowercase(s) ==
    CASE s = "Connection" -> "connection"
      [] s = "Host" -> "host"
      [] s = "HOST" -> "host"
      [] s = "Accept" -> "accept"
      [] s = "Close" -> "close"
      [] s = "Keep-Alive" -> "keep-alive"
      [] s = "Date" -> "date"
      [] OTHER -> s

eq_ignore_ascii_case(a, b) == to_ascii_lowercase(a) = to_ascii_lowercase(b)

\* res.header().get_field(name): the value of the first field whose name is
\* `name` up to ASCII case, "" for None.
RECURSIVE get_field(_, _)
get_field(header, name) ==
    IF header = <<>>
    THEN ""
    ELSE IF eq_ignore_ascii_case(Head(header).name, name)
         THEN Head(header).value
         ELSE get_field(Tail(header), name)

\* From<bytecodec::Error> for Error: the ErrorKind of a codec error.
from_bytecodec(kind) ==
    CASE kind = "InvalidInput" -> "InvalidInput"
      [] kind = "UnexpectedEos" -> "UnexpectedEos"
      [] OTHER -> "Other"

CodecErrorKinds == {"InvalidInput", "UnexpectedEos", "IncompleteDecoding"}

\* One iteration of the loop of Execute::poll, as the calls it makes turn
\* out.  err names the call that fails ("" when none does) and err_kind the
\* kind of a codec error; decoder_idle and encoder_idle are is_idle() after
\* the calls (the encoder's is read only when the decoder is idle); version
\* and header are those of the response finish_decoding returns; eos and
\* would_block are those of the stream.
NoIo ==
    [err |-> "", err_kind |-> "", decoder_idle |-> FALSE, encoder_idle |-> FALSE,
     version |-> "", header |-> <<>>, eos |-> FALSE, would_block |-> FALSE]

Failing ==
    {[NoIo EXCEPT !.err = "execute_io"]}
    \cup {[NoIo EXCEPT !.err = e, !.err_kind = k] :
             e \in {"encode_to_write_buf", "decode_from_read_buf"}, k \in CodecErrorKinds}
    \cup {[NoIo EXCEPT !.err = "finish_decoding", !.err_kind = k, !.decoder_idle = TRUE,
                        !.encoder_idle = i, !.eos = z] :
             k \in CodecErrorKinds, i \in BOOLEAN, z \in BOOLEAN}

Decoded ==
    {[NoIo EXCEPT !.decoder_idle = TRUE, !.encoder_idle = i, !.version = v,
                  !.header = h, !.eos = z] :
        i \in BOOLEAN, v \in {"V1_0", "V1_1"}, h \in Headers(MaxFields), z \in BOOLEAN}

Undecoded ==
    {[NoIo EXCEPT !.eos = z, !.would_block = w] : z \in BOOLEAN, w \in BOOLEAN}

\* The iterations that go round the loop again, and those that leave it.
Looping == {it \in Undecoded : ~it.eos /\ ~it.would_block}

Leaving == Failing \cup Decoded \cup (Undecoded \ Looping)

\* What a call of poll meets: at most MaxIters iterations, the last of which
\* leaves the loop.
RECURSIVE Polls(_)
Polls(n) ==
    IF n = 1
    THEN {<<it>> : it \in Leaving}
    ELSE Polls(n - 1) \cup {<<it>> \o io : it \in Looping, io \in {x \in Polls(n - 1) : Len(x) = n - 1}}

AllPolls == Polls(MaxIters)

\* Mutant: a failed exchange marks the connection Closed.
poll_ErrCloses(connection, io) ==
    LET it == io[Len(io)]
        Err(kind) == [result |-> "Err", kind |-> kind, connection |-> set_state(connection, Closed)]
    IN IF it.err = "execute_io" THEN Err("Other")
       ELSE IF it.err # "" THEN Err(from_bytecodec(it.err_kind))
       ELSE IF it.decoder_idle
       THEN [result |-> "Ready", kind |-> "",
             connection |->
                 set_state(connection,
                           IF do_close(it.encoder_idle, it.version,
                                       get_field(it.header, "Connection"))
                           THEN Closed ELSE Recyclable)]
       ELSE IF it.eos THEN Err("UnexpectedEos")
       ELSE [result |-> "NotReady", kind |-> "", connection |-> connection]

\* Execute::poll on `connection`: result is "Ready", "NotReady" or "Err",
\* kind the ErrorKind of the error, connection the connection afterwards.
RECURSIVE poll(_, _)
poll(connection, io) ==
    LET it == Head(io)
        Err(kind) == [result |-> "Err", kind |-> kind, connection |-> connection]
    IN IF it.err = "execute_io" THEN Err("Other")
       ELSE IF it.err \in {"encode_to_write_buf", "decode_from_read_buf"}
       THEN Err(from_bytecodec(it.err_kind))
       ELSE IF it.decoder_idle
       THEN IF it.err = "finish_decoding"
            THEN Err(from_bytecodec(it.err_kind))
            ELSE [result |-> "Ready", kind |-> "",
                  connection |->
                      set_state(connection,
                                IF do_close(it.encoder_idle, it.version,
                                            get_field(it.header, "Connection"))
                                THEN Closed ELSE Recyclable)]
       ELSE IF it.eos THEN Err("UnexpectedEos")
       ELSE IF it.would_block
       THEN [result |-> "NotReady", kind |-> "", connection |-> connection]
       ELSE poll(connection, Tail(io))

\* ------------------------------------------------------ the request builder
\* A Url as the builder reads it: scheme is Url::scheme() (the url crate keeps
\* it in lower case), target_ok whether RequestTarget::new accepts the text
\* from the path on, host the text url[BeforeHost..AfterPort], and resolve
\* what to_socket_addrs yields: an error, or the addresses in order.
Resolutions ==
    {[ok |-> FALSE, addrs |-> <<>>], [ok |-> TRUE, addrs |-> <<>>],
     [ok |-> TRUE, addrs |-> <<1>>], [ok |-> TRUE, addrs |-> <<2, 1>>]}

Urls ==
    [scheme : {"http", "https"}, target_ok : BOOLEAN, host : {"example.com:8080"},
     resolve : Resolutions]

\* The terminal methods of RequestBuilder and the method each one sends.
Methods == {"GET", "HEAD", "DELETE", "PUT", "POST"}

\* The fields a caller gives to header_field.  HeaderField::new rejects a
\* name that is not a token.
UserFields ==
    {Field("Host", "example.org"), Field("host", "example.net"),
     Field("Accept", "text/plain"), Field("Bad Name", "x")}

HeaderFieldNew(f) == f.name # "Bad Name"

\* The lists of at most n fields of UserFields.
RECURSIVE FieldLists(_)
FieldLists(n) ==
    IF n = 0
    THEN {<<>>}
    ELSE LET shorter == FieldLists(n - 1)
         IN shorter \cup {Append(h, f) : h \in {x \in shorter : Len(x) = n - 1}, f \in UserFields}

AllFieldLists == FieldLists(MaxUserFields)

\* The loop of build_request over header_fields: header is the header once
\* the fields are added, has_host whether one of them is named Host, ok
\* whether HeaderField::new accepted them all.
RECURSIVE add_fields(_, _, _)
add_fields(header_fields, header, has_host) ==
    IF header_fields = <<>>
    THEN [ok |-> TRUE, header |-> header, has_host |-> has_host]
    ELSE LET f == Head(header_fields)
             host == has_host \/ eq_ignore_ascii_case(f.name, "Host")
         IN IF HeaderFieldNew(f)
            THEN add_fields(Tail(header_fields), Append(header, f), host)
            ELSE [ok |-> FALSE, header |-> header, has_host |-> host]

NoRequest == [method |-> "", version |-> "", header |-> <<>>]

\* Mutant: the scheme of the url is not looked at.
build_request_AnyScheme(url, method, header_fields) ==
    IF ~url.target_ok
    THEN [result |-> "Err", kind |-> from_bytecodec("InvalidInput"), request |-> NoRequest]
    ELSE LET a == add_fields(header_fields, <<>>, FALSE)
         IN IF ~a.ok
            THEN [result |-> "Err", kind |-> from_bytecodec("InvalidInput"), request |-> NoRequest]
            ELSE [result |-> "Ok", kind |-> "",
                  request |-> [method |-> method, version |-> "V1_1",
                               header |-> IF a.has_host THEN a.header
                                          ELSE Append(a.header, Field("Host", url.host))]]

\* Mutant: Host is looked for under its exact spelling.
build_request_ExactHost(url, method, header_fields) ==
    IF url.scheme # "http"
    THEN [result |-> "Err", kind |-> "InvalidInput", request |-> NoRequest]
    ELSE IF ~url.target_ok
    THEN [result |-> "Err", kind |-> from_bytecodec("InvalidInput"), request |-> NoRequest]
    ELSE LET a == add_fields(header_fields, <<>>, FALSE)
         IN IF ~a.ok
            THEN [result |-> "Err", kind |-> from_bytecodec("InvalidInput"), request |-> NoRequest]
            ELSE [result |-> "Ok", kind |-> "",
                  request |-> [method |-> method, version |-> "V1_1",
                               header |-> IF \E i \in DOMAIN a.header : a.header[i].name = "Host"
                                          THEN a.header
                                          ELSE Append(a.header, Field("Host", url.host))]]

\* RequestBuilder::build_request
build_request(url, method, header_fields) ==
    IF url.scheme # "http"
    THEN [result |-> "Err", kind |-> "InvalidInput", request |-> NoRequest]
    ELSE IF ~url.target_ok
    THEN [result |-> "Err", kind |-> from_bytecodec("InvalidInput"), request |-> NoRequest]
    ELSE LET a == add_fields(header_fields, <<>>, FALSE)
         IN IF ~a.ok
            THEN [result |-> "Err", kind |-> from_bytecodec("InvalidInput"), request |-> NoRequest]
            ELSE [result |-> "Ok", kind |-> "",
                  request |-> [method |-> method, version |-> "V1_1",
                               header |-> IF a.has_host THEN a.header
                                          ELSE Append(a.header, Field("Host", url.host))]]

\* RequestBuilder::connect up to the call of acquire_connection: the address
\* the connection is asked for, or the error.
connect(url) ==
    IF ~url.resolve.ok
    THEN [result |-> "Err", kind |-> "Other", addr |-> 0]
    ELSE IF url.resolve.addrs = <<>>
    THEN [result |-> "Err", kind |-> "InvalidInput", addr |-> 0]
    ELSE [result |-> "Ok", kind |-> "", addr |-> Head(url.resolve.addrs)]

\* What start_encoding returns: "" for Ok, else the kind of the codec error.
\* Only the encoder a caller supplies, used by put and post, can fail.
Encodings(method) ==
    IF method \in {"PUT", "POST"} THEN {""} \cup CodecErrorKinds ELSE {""}

\* The closure f of get, head, delete, put and post: calls lists the calls
\* made, in order.
terminal(method, url, header_fields, encoding) ==
    LET b == build_request(url, method, header_fields)
        c == connect(url)
        Err(kind, calls, addr) ==
            [result |-> "Err", kind |-> kind, request |-> b.request, calls |-> calls, addr |-> addr]
    IN IF b.result = "Err"
       THEN Err(b.kind, <<"build_request">>, 0)
       ELSE IF c.result = "Err"
       THEN Err(c.kind, <<"build_request", "to_socket_addrs">>, 0)
       ELSE IF encoding # ""
       THEN Err(from_bytecodec(encoding),
                <<"build_request", "to_socket_addrs", "acquire_connection", "start_encoding">>,
                c.addr)
       ELSE [result |-> "Ok", kind |-> "", request |-> b.request,
             calls |-> <<"build_request", "to_socket_addrs", "acquire_connection", "start_encoding">>,
             addr |-> c.addr]

\* A terminal method of the RequestBuilder of request r.  The future it
\* returns is failed(e) when the closure fails; an Acquire sent before
\* start_encoding failed stays in the channel, its reply slot dropped.
Request(r, method, url, header_fields, encoding) ==
    /\ requests[r].pc = "new"
    /\ IF r = 1 THEN TRUE ELSE requests[r - 1].pc # "new"
    /\ LET t == terminal(method, url, header_fields, encoding)
           acquired == t.addr # 0
       IN /\ command_rx' = IF acquired
                            THEN send(command_rx, <<AcquireCmd(t.addr, r)>>)
                            ELSE command_rx
          /\ requests' = [requests EXCEPT ![r] =
                IF t.result = "Err"
                THEN [@ EXCEPT !.pc = "resolved", !.result = t.kind]
                ELSE IF state.dropped
                THEN ReplyErr([@ EXCEPT !.pc = "acquiring"], "Other")
                ELSE [@ EXCEPT !.pc = "acquiring"]]
          /\ ret' = [NoRet EXCEPT !.op = method, !.addr = r, !.result = t.result,
                                  !.kind = t.kind,
                                  !.io = [url |-> url, header_fields |-> header_fields,
                                          request |-> t.request, calls |-> t.calls]]
    /\ UNCHANGED <<max_pool_size, keepalive_timeout, state, metrics, connects>>

\* ------------------------------------------------------------ specification
\* The ErrorKinds a failed connect and a failed exchange resolve with.
ConnectErrorKinds == {"Other", "Timeout"}

ExecuteErrorKinds == {"Other", "UnexpectedEos"}

\* ConnectionPoolBuilder::finish
Init ==
    /\ max_pool_size \in 0..MaxPoolSize
    /\ keepalive_timeout = 0
    /\ state = NewState
    /\ metrics = NewMetrics
    /\ command_rx = <<>>
    /\ connects = {}
    /\ requests = [r \in Requests |-> NewRequest]
    /\ ret = NoRet

Next ==
    \/ \E r \in Requests, addr \in Addrs : StartRequest(r, addr)
    \/ HandleCommand
    \/ Tick
    \/ \E t \in connects : ConnectOk(t)
    \/ \E t \in connects, kind \in ConnectErrorKinds : ConnectFail(t, kind)
    \/ \E r \in Requests, encoder_idle \in BOOLEAN, version \in {"V1_0", "V1_1"},
          connection_field \in {"", "close", "keep-alive"} :
          ExecuteReady(r, encoder_idle, version, connection_field)
    \/ \E r \in Requests, kind \in ExecuteErrorKinds : ExecuteErr(r, kind)
    \/ \E r \in Requests : RequestTimeout(r)
    \/ \E r \in Requests : DropRequest(r)

Spec == Init /\ [][Next]_vars

\* ------------------------------------------------- the pool is dropped
\* Mutant: the reply slots of the commands left in the channel stay open.
DropPool_KeepReplies ==
    /\ ~state.dropped
    /\ state' = [NewState EXCEPT !.dropped = TRUE]
    /\ command_rx' = <<>>
    /\ UNCHANGED <<max_pool_size, keepalive_timeout, metrics, connects, requests>>
    /\ ret' = NoRet

\* The ConnectionPool future is dropped: poll returned the error of its
\* timer, or the executor let go of it.  Its state goes with it, and so do
\* command_rx and the commands left in it: the reply_tx of an Acquire is
\* dropped, and its reply_rx yields the error of kind Other.  The connect
\* tasks already spawned run on.
DropPool ==
    /\ ~state.dropped
    /\ state' = [NewState EXCEPT !.dropped = TRUE]
    /\ command_rx' = <<>>
    /\ requests' =
         [r \in Requests |->
            IF \E i \in DOMAIN command_rx :
                  command_rx[i].type = "Acquire" /\ command_rx[i].reply_tx = r
            THEN ReplyErr(requests[r], "Other")
            ELSE requests[r]]
    /\ UNCHANGED <<max_pool_size, keepalive_timeout, metrics, connects>>
    /\ ret' = NoRet

\* DropSpec is Spec with a pool that may be dropped at any moment.
DropNext == Next \/ DropPool

DropSpec == Init /\ [][DropNext]_vars

\* ------------------------------------------- ConnectionPoolState, driven
\* StateSpec applies the operations of ConnectionPoolState one at a time, as
\* mod tests does; ret is what the call returned.  A connection is pooled or
\* released only for a slot that is allocated and not pooled.
Pooled == DOMAIN state.pooled_connections

StateInit ==
    /\ max_pool_size = MaxPoolSize
    /\ keepalive_timeout \in 0..MaxKeepalive
    /\ state = NewState
    /\ metrics = NewMetrics
    /\ command_rx = <<>>
    /\ connects = {}
    /\ requests = [r \in Requests |-> NewRequest]
    /\ ret = NoRet

TestFrame == UNCHANGED <<max_pool_size, keepalive_timeout, command_rx, connects, requests>>

TestAllocate ==
    /\ state.pool_size < MaxSlots
    /\ state' = allocate_connection(state)
    /\ ret' = [NoRet EXCEPT !.op = "allocate"]
    /\ UNCHANGED metrics
    /\ TestFrame

TestRelease ==
    /\ state.pool_size > Cardinality(Pooled)
    /\ state' = release_connection(state)
    /\ ret' = [NoRet EXCEPT !.op = "release"]
    /\ UNCHANGED metrics
    /\ TestFrame

TestPool(addr) ==
    /\ state.pool_size > Cardinality(Pooled)
    /\ state.seqno < MaxSeqno
    /\ LET connection == [id |-> state.seqno + 1, peer_addr |-> addr, state |-> Recyclable]
       IN /\ state' = pool_connection(state, addr, connection)
          /\ ret' = [NoRet EXCEPT !.op = "pool", !.addr = addr, !.conn = connection]
    /\ UNCHANGED metrics
    /\ TestFrame

TestLend(addr) ==
    /\ LET lend == lend_pooled_connection(state, addr)
       IN /\ state' = lend.st
          /\ ret' = [NoRet EXCEPT !.op = "lend", !.addr = addr, !.conn = lend.conn]
    /\ UNCHANGED metrics
    /\ TestFrame

TestDiscardOldest ==
    /\ LET d == discard_oldest_pooled_connection(state)
       IN /\ state' = d.st
          /\ ret' = [NoRet EXCEPT !.op = "discard", !.conn = d.conn]
    /\ UNCHANGED metrics
    /\ TestFrame

TestTick ==
    /\ PollTimer
    /\ ret' = [NoRet EXCEPT !.op = "tick", !.removed = metrics'.expired - metrics.expired]
    /\ TestFrame

StateNext ==
    \/ TestAllocate
    \/ TestRelease
    \/ \E addr \in Addrs : TestPool(addr)
    \/ \E addr \in Addrs : TestLend(addr)
    \/ TestDiscardOldest
    \/ TestTick

StateSpec == StateInit /\ [][StateNext]_vars

\* ------------------------------------------------ one exchange at a time
\* ExecSpec is the pool used by a client that runs its requests one after the
\* other, as the test connection_pool_works does: Execute::poll is taken with
\* everything its calls can return, and ret records the iteration that left
\* the loop and what poll returned.
ExecInit ==
    /\ max_pool_size = MaxPoolSize
    /\ keepalive_timeout = 0
    /\ state = NewState
    /\ metrics = NewMetrics
    /\ command_rx = <<>>
    /\ connects = {}
    /\ requests = [r \in Requests |-> NewRequest]
    /\ ret = NoRet

\* The client makes its next request when the futures of the earlier ones
\* are dropped.
SendRequest(r, addr) ==
    /\ \A o \in Requests \ {r} : requests[o].pc \in {"new", "dropped"}
    /\ StartRequest(r, addr)

\* Execute::poll called on the exchange of request r.
ExecutePoll(r, io) ==
    /\ requests[r].pc = "executing"
    /\ LET p == poll(requests[r].connection, io)
       IN /\ requests' = [requests EXCEPT ![r] =
                CASE p.result = "Ready" ->
                        [@ EXCEPT !.pc = "resolved", !.result = "Ok", !.connection = p.connection]
                  [] p.result = "Err" ->
                        [@ EXCEPT !.pc = "resolved", !.result = p.kind, !.connection = p.connection]
                  [] p.result = "NotReady" -> @]
          /\ ret' = [NoRet EXCEPT !.op = "poll", !.addr = r, !.io = io[Len(io)],
                                  !.result = p.result, !.kind = p.kind]
    /\ UNCHANGED <<max_pool_size, keepalive_timeout, state, metrics, command_rx, connects>>

ExecNext ==
    \/ \E r \in Requests, addr \in Addrs : SendRequest(r, addr)
    \/ HandleCommand
    \/ \E t \in connects : ConnectOk(t)
    \/ \E r \in Requests :
          requests[r].pc = "executing" /\ \E io \in AllPolls : ExecutePoll(r, io)
    \/ \E r \in Requests : DropRequest(r)

ExecSpec == ExecInit /\ [][ExecNext]_vars

\* ------------------------------------------------- requests being built
\* BuildSpec is the client that builds its requests one after the other with
\* every url, method and list of header fields; ret records what the
\* terminal method was given, the request it built and the calls it made.
BuildNext ==
    \/ \E r \in Requests :
          /\ requests[r].pc = "new"
          /\ \A o \in Requests \ {r} : requests[o].pc \in {"new", "dropped"}
          /\ \E method \in Methods, url \in Urls, header_fields \in AllFieldLists :
                \E encoding \in Encodings(method) :
                   Request(r, method, url, header_fields, encoding)
    \/ HandleCommand
    \/ \E t \in connects : ConnectOk(t)
    \/ \E r \in Requests : DropRequest(r)

BuildSpec == ExecInit /\ [][BuildNext]_vars

\* ------------------------------------------------- one connection, cycled
\* CycleSpec is a pool of one slot used by one client for one peer: the
\* actor handles an Acquire (the connection is lent from the pool, or a slot
\* is allocated and the connect task connects), then the Reuse of the
\* connection, then the timer fires, and so on.  ret is what the last step
\* did and the connection lent.
CycleInit ==
    /\ max_pool_size = 1
    /\ keepalive_timeout \in 0..MaxKeepalive
    /\ state = NewState
    /\ metrics = NewMetrics
    /\ command_rx = <<>>
    /\ connects = {}
    /\ requests = [r \in Requests |-> NewRequest]
    /\ ret = NoRet

CycleFrame == UNCHANGED <<max_pool_size, keepalive_timeout, command_rx, connects, requests>>

\* handle_command, Acquire for peer 1, and the connect task on a miss.
CycleAcquire ==
    /\ ret.op \in {"none", "tick"}
    /\ state.seqno < MaxCycles
    /\ LET a == acquire(state, metrics, max_pool_size, 1)
       IN /\ a.result # "Err"
          /\ state' = a.st
          /\ metrics' = [a.metrics EXCEPT !.lent = @ + 1]
          /\ ret' = [NoRet EXCEPT !.op = "acquire", !.addr = 1,
                                  !.conn = IF a.result = "Some" THEN a.conn
                                           ELSE NewConnection(1, 1)]
    /\ CycleFrame

\* handle_command, Reuse of the connection lent, its exchange completed.
CycleReuse ==
    /\ ret.op = "acquire"
    /\ metrics' = [metrics EXCEPT !.returned = @ + 1]
    /\ state' = pool_connection(state, ret.conn.peer_addr, set_state(ret.conn, Recyclable))
    /\ ret' = [NoRet EXCEPT !.op = "reuse", !.addr = 1]
    /\ CycleFrame

\* ConnectionPool::poll, the timer loop, once.
CycleTick ==
    /\ ret.op = "reuse"
    /\ LET t == tick(state, TIMER_INTERVAL_SECS, keepalive_timeout)
       IN /\ state' = t.st
          /\ metrics' = [metrics EXCEPT !.expired = @ + t.removed]
          /\ ret' = [NoRet EXCEPT !.op = "tick", !.removed = t.removed]
    /\ CycleFrame

CycleNext ==
    \/ CycleAcquire
    \/ CycleReuse
    \/ CycleTick

CycleSpec == CycleInit /\ [][CycleNext]_vars

\* ============================================================== the claims
\* The rented handles that are live: held by a request future, in its reply
\* slot or in its Execute.
Handles == {r \in Requests : requests[r].connection # NoConn}

\* Reuse and Discard commands sent and not yet handled by the actor.
Releases == SelectSeq(command_rx, LAMBDA c : c.type # "Acquire")

Acquires(q) == SelectSeq(q, LAMBDA c : c.type = "Acquire")

\* The step is the actor handling the Acquire at the head of the channel.
AcquireHandled ==
    /\ command_rx # <<>>
    /\ Head(command_rx).type = "Acquire"
    /\ Len(Acquires(command_rx')) < Len(Acquires(command_rx))

\* C1: pool_size never exceeds max_pool_size, whatever commands, ticks,
\* connect completions and drops have happened, for max_pool_size 0, 1 and up.
Inv_C1_PoolSizeBounded == state.pool_size <= max_pool_size

\* C1 witness: the cap is reached although more slots were allocated over
\* time than the pool may hold at once.
Wit_C1_AtCapacity ==
    /\ max_pool_size > 0
    /\ state.pool_size = max_pool_size
    /\ metrics.allocated > max_pool_size

\* C2 as claimed: pool_size is the number of pooled connections plus the
\* number of outstanding rented handles.
Cex_C2_PooledPlusHandles ==
    state.pool_size = Cardinality(Pooled) + Cardinality(Handles)

\* C2 as amended: pool_size is the number of pooled connections plus the live
\* rented handles plus the connect tasks in flight plus the Reuse and Discard
\* commands the actor has not handled yet.
Inv_C2_SlotAccounting ==
    state.pool_size - Cardinality(Pooled) =
        Cardinality(Handles) + Cardinality(connects) + Len(Releases)

\* C2 witness: a slot is held by a connect task and another by a command in
\* the channel, while no handle is live.
Wit_C2_SlotsInTransit ==
    /\ connects # {}
    /\ Len(Releases) > 0
    /\ Handles = {}

\* C4: a connection has one owner: it is in the pooled map, or in one live
\* handle, or in one Reuse command on its way back, never in two of them.
Owners(id) ==
    Cardinality({k \in Pooled : state.pooled_connections[k].id = id})
    + Cardinality({r \in Requests : requests[r].connection.id = id})
    + Len(SelectSeq(command_rx, LAMBDA c : c.connection.id = id))

Inv_C4_ExclusiveOwner == \A id \in Requests : Owners(id) <= 1

\* C4 witness: a request holds a connection that another request's
\* connect created: it went through the pool and was lent again.
Wit_C4_LentAgain ==
    \E r \in Requests : requests[r].connection # NoConn /\ requests[r].connection.id # r

\* C5: a request future that drops its rented handle sends exactly one
\* command, and the command is Reuse with the connection when the connection
\* is Recyclable, Discard Closed when it is Closed, Discard RequestFailed
\* when it is InUse.
Act_C5_DropSendsOne ==
    [][\A r \in Requests :
          (requests[r].connection # NoConn /\ requests'[r].connection = NoConn) =>
              LET c == requests[r].connection
              IN /\ Len(command_rx') = Len(command_rx) + 1
                 /\ SubSeq(command_rx', 1, Len(command_rx)) = command_rx
                 /\ LET sent == command_rx'[Len(command_rx')]
                    IN /\ c.state = Recyclable =>
                             sent.type = "Reuse" /\ sent.connection = c
                       /\ c.state = Closed =>
                             sent.type = "Discard" /\ sent.reason = "Closed"
                       /\ c.state = InUse =>
                             sent.type = "Discard" /\ sent.reason = "RequestFailed"
                       /\ c.state \in {Recyclable, Closed, InUse}]_vars

\* C5 witness: the channel holds a Reuse and a Discard Closed, each sent by
\* the drop of a handle.
Wit_C5_ReuseAndDiscard ==
    /\ \E i \in DOMAIN command_rx : command_rx[i].type = "Reuse"
    /\ \E i \in DOMAIN command_rx :
          command_rx[i].type = "Discard" /\ command_rx[i].reason = "Closed"

\* C9: handling an Acquire for addr counts a no_available_connection error
\* and fails the requester exactly when addr has no pooled connection,
\* pool_size = max_pool_size and no connection of any peer is pooled;
\* otherwise the counter is unchanged and the requester is served.
Act_C9_FailsOnlyWhenAllLent ==
    [][AcquireHandled =>
          LET c == Head(command_rx)
              r == c.reply_tx
              full == /\ range(state.pooled_connections, c.addr) = {}
                      /\ state.pool_size = max_pool_size
                      /\ Pooled = {}
          IN IF full
             THEN /\ metrics'.no_available = metrics.no_available + 1
                  /\ \A t \in connects' : t.reply_tx # r
                  /\ requests'[r].connection = NoConn
                  /\ requests[r].pc = "acquiring" => requests'[r].pc = "resolved"
             ELSE /\ metrics'.no_available = metrics.no_available
                  /\ metrics'.lent = metrics.lent + 1
                  /\ \/ [addr |-> c.addr, reply_tx |-> r] \in connects'
                     \/ requests'[r].connection # NoConn
                     \/ requests[r].pc = "dropped" /\ Len(command_rx') = Len(command_rx)]_vars

\* C9 witness: an Acquire failed at a pool of at least one slot.
Wit_C9_Unavailable ==
    /\ metrics.no_available > 0
    /\ max_pool_size > 0
    /\ Cardinality(Handles) = max_pool_size

\* C10: an Acquire that misses at pool_size = max_pool_size while a
\* connection is pooled evicts exactly one pooled connection, counts one
\* kicked_out and one allocated, spawns one connect task for the requester and
\* leaves pool_size = max_pool_size.
Act_C10_KickOutOne ==
    [][(/\ AcquireHandled
        /\ range(state.pooled_connections, Head(command_rx).addr) = {}
        /\ state.pool_size = max_pool_size
        /\ Pooled # {}) =>
          LET c == Head(command_rx)
              task == [addr |-> c.addr, reply_tx |-> c.reply_tx]
          IN /\ Pooled' \subseteq Pooled
             /\ Cardinality(Pooled') = Cardinality(Pooled) - 1
             /\ metrics'.kicked_out = metrics.kicked_out + 1
             /\ metrics'.allocated = metrics.allocated + 1
             /\ task \notin connects
             /\ connects' = connects \cup {task}
             /\ state'.pool_size = max_pool_size]_vars

\* C10 witness: one connection was kicked out, the connect task spawned for
\* the Acquire is in flight and the pool is full again.
Wit_C10_KickedOut ==
    /\ metrics.kicked_out = 1
    /\ connects # {}
    /\ state.pool_size = max_pool_size

\* ------------------------------------------------------------- fairness
Connects == [addr : Addrs, reply_tx : Requests]

\* The actor keeps receiving commands, every spawned connect task completes
\* (connected, failed or timed out) and every request future is dropped in
\* the end, by its caller or by its executor.
FairSpec ==
    /\ Spec
    /\ WF_vars(HandleCommand)
    /\ \A t \in Connects :
          WF_vars(ConnectOk(t) \/ \E kind \in ConnectErrorKinds : ConnectFail(t, kind))
    /\ \A r \in Requests : WF_vars(DropRequest(r))

\* C3: no allocated slot leaks: whenever slots are allocated beyond the
\* pooled connections, a state follows in which pool_size is the number of
\* pooled connections again.
Live_C3_NoSlotLeak ==
    (state.pool_size # Cardinality(Pooled)) ~> (state.pool_size = Cardinality(Pooled))

\* C3 witness: every request is over, by a failed connect or exchange, a
\* cancellation or a timeout among them, and every slot left is a pooled
\* connection.
Wit_C3_AllReleased ==
    /\ \A r \in Requests : requests[r].pc = "dropped"
    /\ metrics.request_failed + metrics.connect_failed > 0
    /\ metrics.returned = NumRequests
    /\ state.pool_size = Cardinality(Pooled)

\* C6: lend_pooled_connection(addr) returns the connection of addr pooled
\* last (the one with the greatest seqno among addr's entries) and removes
\* only it; when addr has no entry it returns nothing and removes nothing,
\* whatever other peers have pooled.
Act_C6_LifoPerPeer ==
    [][ret'.op = "lend" =>
          LET keys == {k \in Pooled : k.addr = ret'.addr}
          IN IF keys = {}
             THEN ret'.conn = NoConn /\ Pooled' = Pooled
             ELSE \E k \in keys :
                     /\ \A o \in keys : o.seqno <= k.seqno
                     /\ ret'.conn = state.pooled_connections[k]
                     /\ ret'.conn.peer_addr = ret'.addr
                     /\ Pooled' = Pooled \ {k}]_vars

\* C6 witness: the third connection pooled for a peer is lent while the
\* first two are still pooled for it.
Wit_C6_ThirdLentFirst ==
    /\ ret.op = "lend"
    /\ ret.conn.id = 3
    /\ Cardinality({k \in Pooled : k.addr = ret.addr /\ k.seqno < 2}) = 2

\* C7 as claimed: discard_oldest_pooled_connection removes the pooled
\* connection with the smallest pooled_time of all peers, the one with the
\* smallest seqno among those of equal pooled_time, and releases its slot;
\* it returns nothing only when nothing is pooled.
Cex_C7_TieBySeqno ==
    [][ret'.op = "discard" =>
          IF Pooled = {}
          THEN ret'.conn = NoConn /\ state'.pool_size = state.pool_size
          ELSE \E k \in Pooled :
                  /\ \A o \in Pooled :
                        \/ o = k
                        \/ k.pooled_time < o.pooled_time
                        \/ k.pooled_time = o.pooled_time /\ k.seqno < o.seqno
                  /\ ret'.conn = state.pooled_connections[k]
                  /\ Pooled' = Pooled \ {k}
                  /\ state'.pool_size = state.pool_size - 1]_vars

\* C7 as amended: the connection removed has the smallest pooled_time of all
\* peers; among connections of equal pooled_time the one of the greatest peer
\* address goes first, and within one peer the one with the smallest seqno.
Act_C7_OldestFirst ==
    [][ret'.op = "discard" =>
          IF Pooled = {}
          THEN ret'.conn = NoConn /\ state'.pool_size = state.pool_size
          ELSE \E k \in Pooled :
                  /\ \A o \in Pooled :
                        \/ o = k
                        \/ k.pooled_time < o.pooled_time
                        \/ k.pooled_time = o.pooled_time /\ k.addr > o.addr
                        \/ k.pooled_time = o.pooled_time /\ k.addr = o.addr /\ k.seqno < o.seqno
                  /\ ret'.conn = state.pooled_connections[k]
                  /\ Pooled' = Pooled \ {k}
                  /\ state'.pool_size = state.pool_size - 1]_vars

\* C7 witness: an eviction removed a connection of one peer and left those
\* of another, while a slot is lent and the heap holds a stale entry.
Wit_C7_EvictedPastStale ==
    /\ ret.op = "discard"
    /\ ret.conn # NoConn
    /\ Pooled # {}
    /\ \A k \in Pooled : k.addr # ret.conn.peer_addr
    /\ state.pool_size > Cardinality(Pooled)
    /\ \E i \in DOMAIN state.timeout_queue :
          to_pool_key(state.timeout_queue[i]) \notin Pooled

\* C8: a tick removes every pooled entry whose pooled_time plus
\* keepalive_timeout is less than the elapsed time the tick brings, and for
\* each entry it removes pool_size goes down by one and the expired counter
\* up by one.
Act_C8_ExpiryComplete ==
    [][ret'.op = "tick" =>
          /\ \A k \in Pooled :
                k.pooled_time + keepalive_timeout < state'.elapsed_time => k \notin Pooled'
          /\ Pooled' \subseteq Pooled
          /\ state'.pool_size = state.pool_size - Cardinality(Pooled \ Pooled')
          /\ metrics'.expired = metrics.expired + Cardinality(Pooled \ Pooled')]_vars

\* C8 witness: one tick expired two connections and left a younger one.
Wit_C8_TwoExpired ==
    /\ ret.op = "tick"
    /\ ret.removed = 2
    /\ metrics.expired = 2
    /\ Pooled # {}

\* ------------------------------------------------- the execute engine
\* The header has a Connection field carrying the connection option
\* `option`; field names and connection options are taken up to ASCII case.
Present(header, option) ==
    \E i \in DOMAIN header :
        /\ eq_ignore_ascii_case(header[i].name, "Connection")
        /\ eq_ignore_ascii_case(header[i].value, option)

\* The last step was a call of poll that returned Ready(response).
Polled == ret.op = "poll" /\ ret.result = "Ready"

\* C11 as claimed: when poll returns the response with the request fully
\* sent, an HTTP/1.1 response leaves the connection Closed if and only if a
\* Connection: close field is present and Recyclable otherwise, and an
\* HTTP/1.0 response leaves it Recyclable if and only if a Connection:
\* keep-alive field is present and Closed otherwise.
Cex_C11_VersionAndConnectionHeader ==
    (Polled /\ ret.io.encoder_idle) =>
        LET c == requests[ret.addr].connection
        IN IF ret.io.version = "V1_1"
           THEN c.state = (IF Present(ret.io.header, "close") THEN Closed ELSE Recyclable)
           ELSE c.state = (IF Present(ret.io.header, "keep-alive") THEN Recyclable ELSE Closed)

\* C12: when the decoder finishes while the encoder has not drained its
\* output, poll leaves the connection Closed whatever the version and the
\* header of the response; and a handle dropped with a Closed connection
\* sends Discard Closed, after which the connection is neither pooled nor in
\* a Reuse command.
Act_C12_UnsentRequestCloses ==
    [][\A r \in Requests :
          LET c == requests[r].connection
          IN /\ (ret'.op = "poll" /\ ret'.addr = r /\ ret'.result = "Ready"
                  /\ ~ret'.io.encoder_idle) =>
                    requests'[r].connection = set_state(c, Closed)
             /\ (c.state = Closed /\ requests'[r].connection = NoConn) =>
                    /\ command_rx' = Append(command_rx, DiscardCmd(ReasonClosed))
                    /\ \A k \in DOMAIN state'.pooled_connections :
                          state'.pooled_connections[k].id # c.id
                    /\ \A i \in DOMAIN command_rx' : command_rx'[i].connection.id # c.id]_vars

\* C12 witness: an HTTP/1.1 response without Connection: close and an
\* HTTP/1.0 response with Connection: keep-alive would leave the connection
\* Recyclable; here one was decoded before the request was sent in full.
Wit_C12_ClosedDespiteKeepAlive ==
    /\ Polled
    /\ ~ret.io.encoder_idle
    /\ ret.io.version = "V1_0"
    /\ ret.io.header = <<Field("Connection", "keep-alive")>>
    /\ requests[ret.addr].connection.state = Closed

\* C13 as claimed: a call of poll that meets end-of-stream on the connection
\* does not leave the connection Recyclable, also when the response is
\* decoded in that call.
Cex_C13_EosNeverRecyclable ==
    (ret.op = "poll" /\ ret.io.eos) => requests[ret.addr].connection.state # Recyclable

\* C14: a call of poll in which execute_io, the encoder, the decoder or
\* finish_decoding fails, or which meets end-of-stream before the decoder
\* finished (UnexpectedEos), returns the error and leaves the connection as
\* it was, InUse; a handle dropped with an InUse connection sends Discard
\* RequestFailed, and the actor handling it counts request_failed and not
\* closed.
Act_C14_ErrorLeavesInUse ==
    [][/\ \A r \in Requests :
             LET c == requests[r].connection
             IN /\ (ret'.op = "poll" /\ ret'.addr = r) =>
                      /\ (ret'.io.err # "" \/ (~ret'.io.decoder_idle /\ ret'.io.eos)) <=>
                            ret'.result = "Err"
                      /\ (ret'.io.err = "" /\ ~ret'.io.decoder_idle /\ ret'.io.eos) =>
                            ret'.kind = "UnexpectedEos"
                      /\ ret'.result = "Err" =>
                            /\ requests'[r].connection = c
                            /\ c.state = InUse
                            /\ requests'[r].pc = "resolved"
                            /\ requests'[r].result = ret'.kind
                /\ (c.state = InUse /\ requests'[r].connection = NoConn) =>
                      command_rx' = Append(command_rx, DiscardCmd(ReasonRequestFailed))
       /\ (/\ command_rx # <<>>
           /\ Head(command_rx) = DiscardCmd(ReasonRequestFailed)
           /\ command_rx' = Tail(command_rx)) =>
             /\ metrics'.request_failed = metrics.request_failed + 1
             /\ metrics'.closed = metrics.closed
             /\ state'.pool_size = state.pool_size - 1
             /\ state'.pooled_connections = state.pooled_connections]_vars

\* C14 witness: finish_decoding failed with UnexpectedEos after the decoder
\* went idle, on a connection lent from the pool, and the caller has the
\* error.
Wit_C14_FinishDecodingFailed ==
    /\ ret.op = "poll"
    /\ ret.io.err = "finish_decoding"
    /\ ret.result = "Err"
    /\ requests[ret.addr].connection.state = InUse
    /\ requests[ret.addr].connection.id # ret.addr
    /\ requests[ret.addr].result = "UnexpectedEos"

\* ------------------------------------------------ what enters the pool
\* C15: every connection in the pooled map is Recyclable; a connection
\* enters the map only by the actor handling a Reuse command that carries
\* it, and a Reuse command enters the channel only with a connection that
\* was Recyclable in the handle dropped, whatever the requests do.
Act_C15_OnlyRecyclablePooled ==
    [][/\ \A k \in DOMAIN state'.pooled_connections :
             /\ state'.pooled_connections[k].state = Recyclable
             /\ k \notin Pooled =>
                   /\ Head(command_rx).type = "Reuse"
                   /\ Head(command_rx).connection = state'.pooled_connections[k]
                   /\ command_rx' = Tail(command_rx)
       /\ \A i \in DOMAIN command_rx' :
             command_rx'[i].type = "Reuse" =>
                /\ command_rx'[i].connection.state = Recyclable
                /\ (\A j \in DOMAIN command_rx : command_rx[j] # command_rx'[i]) =>
                      \E r \in Requests :
                         /\ requests[r].connection = command_rx'[i].connection
                         /\ requests'[r].connection = NoConn]_vars

\* C15 witness: a connection is pooled while others were discarded as
\* Closed and as RequestFailed.
Wit_C15_PooledAmongDiscards ==
    /\ Pooled # {}
    /\ metrics.closed + metrics.request_failed > 0

\* ------------------------------------------------------- cancellation
\* The slots allocated beyond the pooled connections, and those accounted
\* for: by a live handle, a connect task or a Reuse or Discard on its way.
SlotsOut == state.pool_size - Cardinality(Pooled)

SlotsHeld == Cardinality(Handles) + Cardinality(connects) + Len(Releases)

\* C16: when the reply to an Acquire arrives after its request future was
\* dropped (the connect task connected, or the actor lent a pooled
\* connection), no handle stays alive: exactly one Discard RequestFailed is
\* sent for it; the slot stays accounted for once, pool_size is decremented
\* by one when the actor handles that Discard, and never below zero.
Act_C16_CancelledAcquire ==
    [][/\ \A t \in Connects :
             (ConnectOk(t) /\ requests[t.reply_tx].pc = "dropped") =>
                /\ command_rx' = Append(command_rx, DiscardCmd(ReasonRequestFailed))
                /\ requests' = requests
                /\ state' = state
       /\ (/\ AcquireHandled
           /\ requests[Head(command_rx).reply_tx].pc = "dropped"
           /\ range(state.pooled_connections, Head(command_rx).addr) # {}) =>
             /\ command_rx' = Append(Tail(command_rx), DiscardCmd(ReasonRequestFailed))
             /\ requests' = requests
             /\ Cardinality(Pooled') = Cardinality(Pooled) - 1
             /\ state'.pool_size = state.pool_size
       /\ (command_rx # <<>> /\ Head(command_rx).type = "Discard"
           /\ command_rx' = Tail(command_rx)) =>
             /\ state.pool_size > 0
             /\ state'.pool_size = state.pool_size - 1
       /\ ~state'.panicked
       /\ SlotsOut' = SlotsHeld']_vars

\* C16 witness: the first request pooled its connection, the second was
\* dropped and the pooled connection lent for it is on its way back as
\* Discard RequestFailed, its slot still allocated; the state a reply
\* reaching a dropped receiver leaves.
Wit_C16_ReplyAfterDrop ==
    /\ \A r \in Requests : requests[r].pc = "dropped"
    /\ connects = {}
    /\ metrics.lent = 2
    /\ metrics.allocated = 1
    /\ command_rx = <<DiscardCmd(ReasonRequestFailed)>>
    /\ Pooled = {}
    /\ state.pool_size = 1

\* ------------------------------------------------------------ timeouts
\* C17: when the request timeout fires, during the acquisition or during
\* the exchange, the future resolves with Timeout and sends nothing yet; the
\* connection it holds then, or receives in its reply slot afterwards, stays
\* InUse, and the drop of the future sends exactly one Discard
\* RequestFailed for it (none when it holds no connection), never a Reuse;
\* the actor handling that Discard releases one slot.
Act_C17_TimeoutDiscards ==
    [][/\ \A r \in Requests :
             LET c == requests[r].connection
             IN /\ (requests[r].pc \in {"acquiring", "executing"}
                       /\ requests'[r].pc = "timedout") =>
                      /\ requests'[r].result = "Timeout"
                      /\ requests'[r].connection = c
                      /\ command_rx' = command_rx
                      /\ state' = state
                /\ requests[r].pc = "timedout" =>
                      /\ c.state \in {"None", InUse}
                      /\ requests'[r].pc \in {"timedout", "dropped"}
                      /\ requests'[r].pc = "timedout" =>
                            /\ requests'[r].result = "Timeout"
                            /\ requests'[r].connection.state \in {"None", InUse}
                            /\ c # NoConn => requests'[r].connection = c
                      /\ requests'[r].pc = "dropped" =>
                            command_rx' = IF c = NoConn
                                          THEN command_rx
                                          ELSE Append(command_rx, DiscardCmd(ReasonRequestFailed))
       /\ (/\ command_rx # <<>>
           /\ Head(command_rx) = DiscardCmd(ReasonRequestFailed)
           /\ command_rx' = Tail(command_rx)) =>
             /\ state'.pool_size = state.pool_size - 1
             /\ metrics'.returned = metrics.returned + 1
             /\ Pooled' = Pooled]_vars

\* C17 witness: one request timed out and holds the connection of its
\* exchange, the other timed out during its acquisition, its connect task
\* still running.
Wit_C17_BothTimedOut ==
    \E r, o \in Requests :
        /\ requests[r].pc = "timedout"
        /\ requests[r].connection.state = InUse
        /\ requests[o].pc = "timedout"
        /\ requests[o].connection = NoConn
        /\ \E t \in connects : t.reply_tx = o

\* ------------------------------------------------------ failed connects
\* C18: a connect task ends in one of three ways.  Connected, it sends
\* nothing and its requester holds the new handle; connected for a dropped
\* requester, the handle is dropped at once (one Discard RequestFailed);
\* failed, by an error or by the connect timeout, it creates no handle, sends
\* exactly one Discard ConnectFailed and forwards the error (of kind Timeout
\* for the connect timeout) to a requester still waiting.  The actor
\* handling Discard ConnectFailed releases one slot and counts
\* connect_failed, and the slots stay accounted for once.
Act_C18_ConnectFailure ==
    [][/\ \A t \in connects \ connects' :
             LET r == t.reply_tx
                 sent == SubSeq(command_rx', Len(command_rx) + 1, Len(command_rx'))
             IN /\ SubSeq(command_rx', 1, Len(command_rx)) = command_rx
                /\ \/ /\ sent = <<>>
                      /\ requests[r].connection = NoConn
                      /\ requests'[r].connection = NewConnection(r, t.addr)
                   \/ /\ sent = <<DiscardCmd(ReasonRequestFailed)>>
                      /\ requests[r].pc = "dropped"
                      /\ requests' = requests
                   \/ /\ sent = <<DiscardCmd(ReasonConnectFailed)>>
                      /\ requests'[r].connection = NoConn
                      /\ IF requests[r].pc = "acquiring"
                         THEN /\ requests'[r].pc = "resolved"
                              /\ requests'[r].result \in ConnectErrorKinds
                         ELSE requests' = requests
       /\ \A t \in Connects, kind \in ConnectErrorKinds :
             ConnectFail(t, kind) =>
                /\ command_rx' = Append(command_rx, DiscardCmd(ReasonConnectFailed))
                /\ Handles' = Handles
                /\ requests[t.reply_tx].pc = "acquiring" => requests'[t.reply_tx].result = kind
       /\ (/\ command_rx # <<>>
           /\ Head(command_rx) = DiscardCmd(ReasonConnectFailed)
           /\ command_rx' = Tail(command_rx)) =>
             /\ state'.pool_size = state.pool_size - 1
             /\ metrics'.connect_failed = metrics.connect_failed + 1
             /\ metrics'.request_failed = metrics.request_failed
       /\ state'.pool_size - Cardinality(Pooled') =
             Cardinality(Handles') + Cardinality(connects') + Len(Releases')]_vars

\* C18 witness: a connect timed out; the requester has the Timeout error
\* and no handle, and the one Discard ConnectFailed has released the slot.
Wit_C18_ConnectTimedOut ==
    \E r \in Requests :
        /\ requests[r].pc = "resolved"
        /\ requests[r].result = "Timeout"
        /\ requests[r].connection = NoConn
        /\ metrics.connect_failed = 1
        /\ metrics.allocated = 1
        /\ state.pool_size = 0

\* ------------------------------------------------- every Acquire answered
\* The pool actor keeps receiving commands and every connect task completes
\* (connected, failed, or stopped by the connect timeout); nothing is assumed
\* of the requests.
PoolFairSpec ==
    /\ Spec
    /\ WF_vars(HandleCommand)
    /\ WF_vars(\E t \in Connects :
                  ConnectOk(t) \/ \E kind \in ConnectErrorKinds : ConnectFail(t, kind))

\* The replies request r is still owed: its Acquire in the channel q, its
\* connect task among cs.
Pending(q, cs, r) ==
    Len(SelectSeq(q, LAMBDA c : c.type = "Acquire" /\ c.reply_tx = r))
    + Cardinality({t \in cs : t.reply_tx = r})

\* C19: a request waiting for its acquisition does not wait for ever, and
\* an Acquire is answered once: a request is owed at most one reply, exactly
\* one while it waits and none once it was answered.  The actor answers a
\* waiting requester at once with a pooled connection of its peer on a hit
\* and with TemporarilyUnavailable when the pool is full and nothing is
\* pooled; otherwise the reply is left to the connect task it spawns.
Live_C19_AcquireAnswered ==
    /\ \A r \in Requests : []<>(requests[r].pc # "acquiring")
    /\ [](\A r \in Requests :
             /\ Pending(command_rx, connects, r) <= 1
             /\ requests[r].pc = "acquiring" => Pending(command_rx, connects, r) = 1
             /\ requests[r].pc \in {"new", "executing", "resolved"} =>
                   Pending(command_rx, connects, r) = 0)
    /\ [][(AcquireHandled /\ requests[Head(command_rx).reply_tx].pc = "acquiring") =>
             LET c == Head(command_rx)
                 r == c.reply_tx
                 keys == range(state.pooled_connections, c.addr)
             IN IF keys # {}
                THEN /\ requests'[r].pc = "executing"
                     /\ \E k \in keys :
                           requests'[r].connection = set_state(state.pooled_connections[k], InUse)
                     /\ Pending(command_rx', connects', r) = 0
                ELSE IF state.pool_size = max_pool_size /\ Pooled = {}
                THEN /\ requests'[r].pc = "resolved"
                     /\ requests'[r].result = "TemporarilyUnavailable"
                     /\ Pending(command_rx', connects', r) = 0
                ELSE /\ requests'[r] = requests[r]
                     /\ connects' = connects \cup {[addr |-> c.addr, reply_tx |-> r]}]_vars

\* C19 witness: one requester was answered with an error at a full pool
\* whose only slot another requester holds.
Wit_C19_AnsweredUnavailable ==
    \E r, o \in Requests :
        /\ requests[r].pc = "resolved"
        /\ requests[r].result = "TemporarilyUnavailable"
        /\ requests[o].pc = "executing"
        /\ max_pool_size = 1

\* ----------------------------------------------------- the pool is gone
\* Request r leaves the wait for its acquisition by a reply, not by its own
\* timeout or drop.
Answered(r) ==
    /\ requests[r].pc = "acquiring"
    /\ requests'[r].pc \in {"executing", "resolved"}

\* C20 as claimed: once the pool is dropped, a request that was waiting for
\* the reply to its Acquire, or that sends its Acquire afterwards, is
\* answered with an error of kind Other and with nothing else.
Cex_C20_GoneMeansOther ==
    [][\A r \in Requests :
          (state'.dropped /\ (Answered(r) \/ requests[r].pc = "new")
           /\ requests'[r] # requests[r]) =>
             /\ requests'[r].pc = "resolved"
             /\ requests'[r].result = "Other"
             /\ requests'[r].connection = NoConn]_vars

\* C20 as amended: when the pool is dropped, every waiting request whose
\* Acquire is still in the channel is answered at once with an error of kind
\* Other, and so is a request that sends its Acquire afterwards; the pool
\* stays dropped and its channel empty, and the only requests left waiting
\* are those whose Acquire was handed to a connect task, which answers them.
Act_C20_UnhandledAcquireFails ==
    [][/\ \A r \in Requests :
             /\ (/\ ~state.dropped
                 /\ state'.dropped
                 /\ requests[r].pc = "acquiring"
                 /\ Pending(command_rx, {}, r) = 1) =>
                   requests'[r] = [requests[r] EXCEPT !.pc = "resolved", !.result = "Other"]
             /\ (state.dropped /\ requests[r].pc = "new" /\ requests'[r].pc # "new") =>
                   requests'[r] = [NewRequest EXCEPT !.pc = "resolved", !.result = "Other"]
             /\ (state'.dropped /\ requests'[r].pc = "acquiring") =>
                   Pending(<<>>, connects', r) = 1
       /\ state.dropped => state'.dropped
       /\ state'.dropped => command_rx' = <<>>]_vars

\* C20 witness: the pool was dropped before it handled any Acquire; the
\* request whose Acquire was in the channel and the request made afterwards
\* both have the error of kind Other.
Wit_C20_BothFailedOther ==
    /\ state.dropped
    /\ metrics.lent = 0
    /\ metrics.no_available = 0
    /\ \A r \in Requests :
          requests[r] = [NewRequest EXCEPT !.pc = "resolved", !.result = "Other"]

\* ------------------------------------------------------------ the metrics
\* C21: the allocated counter is never below the sum of the counters of
\* released connections (closed, connect_failed, request_failed, expired,
\* kicked_out), so the subtraction of the pool_size metric never saturates,
\* and the metric is the pool's own pool_size.
Inv_C21_AllocatedCoversReleased ==
    /\ released_connections(metrics) <= metrics.allocated
    /\ metrics_pool_size(metrics) = metrics.allocated - released_connections(metrics)
    /\ ~state.panicked => metrics_pool_size(metrics) = state.pool_size

\* C21 witness: every slot ever allocated was released, one by an eviction
\* and one by a failed connect.
Wit_C21_AllReleased ==
    /\ metrics.kicked_out = 1
    /\ metrics.connect_failed = 1
    /\ metrics.allocated = 2
    /\ released_connections(metrics) = 2

\* ------------------------------------------------- lent and returned
\* C22 as claimed: when the client that runs its requests one after the other
\* has the result of its last request, each request having been lent a
\* connection and none cancelled or failed, the lent and returned counters
\* both equal the number of requests, pool_size is at most max_pool_size, and
\* returned is at most lent.
Cex_C22_LentEqualsReturned ==
    (/\ \A r \in Requests \ {NumRequests} : requests[r].pc = "dropped"
     /\ requests[NumRequests].pc = "resolved"
     /\ requests[NumRequests].result = "Ok"
     /\ metrics.lent = NumRequests
     /\ metrics.request_failed = 0
     /\ connects = {}
     /\ command_rx = <<>>) =>
        /\ metrics.returned = NumRequests
        /\ in_use_connetions(metrics) = 0
        /\ metrics.returned <= metrics.lent
        /\ metrics_pool_size(metrics) <= max_pool_size

\* ------------------------------------------------ release and completion
\* C23 as claimed: a request future that has resolved to its caller holds no
\* rented connection any more: the Reuse or Discard of the connection it was
\* lent was sent before it resolved.
Cex_C23_ReleasedBeforeResolved ==
    \A r \in Requests :
       requests[r].pc \in {"resolved", "timedout"} => requests[r].connection = NoConn

\* ------------------------------------------------ counted, then answered
\* The step fills the reply slot of request r: with a rented connection, or
\* with the error TemporarilyUnavailable.
Replied(r) ==
    \/ requests[r].connection = NoConn /\ requests'[r].connection # NoConn
    \/ requests[r].result = "" /\ requests'[r].result = "TemporarilyUnavailable"

\* C24: a reply slot is never resolved ahead of the counter of its command.
\* The step in which the actor answers an Acquire with a pooled connection
\* leaves lent one higher, the step in which it answers with
\* TemporarilyUnavailable leaves no_available one higher and lent as it was;
\* on a miss lent is raised at once and the slot is left open, and when the
\* connect task fills it later no counter moves and lent already covers it:
\* lent is returned plus the releases under way, the handles held and the
\* connect tasks running.
Act_C24_CountedBeforeReplied ==
    [][/\ \A r \in Requests :
             Replied(r) =>
                IF AcquireHandled
                THEN IF requests'[r].result = "TemporarilyUnavailable"
                     THEN /\ metrics'.no_available = metrics.no_available + 1
                          /\ metrics'.lent = metrics.lent
                     ELSE /\ metrics'.lent = metrics.lent + 1
                          /\ metrics'.no_available = metrics.no_available
                ELSE /\ metrics' = metrics
                     /\ \E t \in connects : t.reply_tx = r
                     /\ metrics.lent = metrics.returned + Len(Releases)
                                         + Cardinality(Handles) + Cardinality(connects)
       /\ (AcquireHandled /\ \A r \in Requests : ~Replied(r)) =>
             \/ metrics'.lent = metrics.lent + 1 /\ Cardinality(connects') = Cardinality(connects) + 1
             \/ requests[Head(command_rx).reply_tx].pc # "acquiring"]_vars

\* C24 witness: the second request was answered from the pool: two
\* connections lent for one slot allocated.
Wit_C24_LentFromPool ==
    /\ requests[2].pc = "executing"
    /\ metrics.lent = 2
    /\ metrics.allocated = 1

\* -------------------------------------------------- the request builder
\* The step is a call of a terminal method of RequestBuilder.
Built == ret'.op \in Methods

\* C25: a terminal method (get, head, delete, put, post) given a url whose
\* scheme is not http fails with InvalidInput, and build_request is the only
\* call it made: the host is not resolved, no Acquire is sent and nothing of
\* the pool moves.
Act_C25_NonHttpScheme ==
    [][(Built /\ ret'.io.url.scheme # "http") =>
          /\ ret'.result = "Err"
          /\ ret'.kind = "InvalidInput"
          /\ ret'.io.calls = <<"build_request">>
          /\ requests' = [requests EXCEPT ![ret'.addr] =
                             [NewRequest EXCEPT !.pc = "resolved", !.result = "InvalidInput"]]
          /\ UNCHANGED <<command_rx, connects, state, metrics>>]_vars

\* C25 witness: post failed on an https url whose host resolves, after the
\* request before it was lent a connection.
Wit_C25_HttpsPost ==
    /\ ret.op = "POST"
    /\ ret.io.url.scheme = "https"
    /\ ret.io.url.resolve.addrs # <<>>
    /\ ret.kind = "InvalidInput"
    /\ ret.addr = 2
    /\ metrics.lent = 1
    /\ command_rx = <<>>

\* The fields of header h named Host, up to ASCII case.
Hosts(h) == {i \in DOMAIN h : eq_ignore_ascii_case(h[i].name, "Host")}

\* C26: the header of a built request is the fields given, in their order,
\* followed by Host with the host of the url exactly when none of the fields
\* given is named Host up to ASCII case; so it has a Host field, and no more
\* Host fields than were given unless none was.
Inv_C26_HostAppended ==
    (ret.op \in Methods /\ ret.io.request # NoRequest) =>
        LET given == ret.io.header_fields
            header == ret.io.request.header
        IN /\ Len(header) >= Len(given)
           /\ SubSeq(header, 1, Len(given)) = given
           /\ IF Hosts(given) = {}
              THEN header = Append(given, Field("Host", ret.io.url.host))
              ELSE header = given
           /\ Hosts(header) # {}
           /\ Cardinality(Hosts(header)) = IF Hosts(given) = {} THEN 1 ELSE Cardinality(Hosts(given))
           /\ ret.io.request.method = ret.op

\* C26 witness: a request built from fields whose second is spelled host:
\* its header is the two fields given.
Wit_C26_LowerCaseHost ==
    /\ ret.op \in Methods
    /\ ret.result = "Ok"
    /\ ret.io.header_fields = <<Field("Accept", "text/plain"), Field("host", "example.net")>>
    /\ ret.io.request.header = ret.io.header_fields

\* ------------------------------------------------- the eviction heap
\* The entries of the heap for peer addr whose key is pooled.
NonStale(addr) ==
    {i \in DOMAIN state.timeout_queue :
        /\ state.timeout_queue[i].addr = addr
        /\ to_pool_key(state.timeout_queue[i]) \in Pooled}

\* C27 as claimed: between the calls, the heap holds exactly one non-stale
\* entry for every peer that has a pooled connection, and that entry is the
\* peer's oldest pooled key.
Cex_C27_OneEntryPerPeer ==
    \A addr \in Addrs :
       pool_contains(state, addr) =>
          /\ Cardinality(NonStale(addr)) = 1
          /\ \A i \in NonStale(addr) :
                {to_pool_key(state.timeout_queue[i])} = get_oldest(state.pooled_connections, addr)

\* ------------------------------------------------- what moves pool_size
\* The step is the actor handling the Reuse or Discard at the head of the
\* channel.
ReleaseHandled(type) ==
    /\ command_rx # <<>>
    /\ Head(command_rx).type = type
    /\ Len(command_rx') < Len(command_rx)

\* C28: handling a Reuse pools one connection and leaves pool_size as it
\* was; an Acquire served from the pool takes the newest pooled connection of
\* its peer and leaves pool_size, allocated and kicked_out as they were and
\* every other pooled connection in place, also at pool_size =
\* max_pool_size; and pool_size moves only by +1 at an Acquire miss below
\* max_pool_size, by -1 at a Discard, and down by the number of connections
\* expired at a tick.
Act_C28_PoolSizeFrame ==
    [][/\ ReleaseHandled("Reuse") =>
             /\ state'.pool_size = state.pool_size
             /\ Cardinality(Pooled') = Cardinality(Pooled) + 1
       /\ (AcquireHandled /\ pool_contains(state, Head(command_rx).addr)) =>
             /\ state'.pool_size = state.pool_size
             /\ metrics'.allocated = metrics.allocated
             /\ metrics'.kicked_out = metrics.kicked_out
             /\ metrics'.no_available = metrics.no_available
             /\ metrics'.lent = metrics.lent + 1
             /\ Pooled' = Pooled \ {MaxKey(range(state.pooled_connections, Head(command_rx).addr))}
       /\ state'.pool_size # state.pool_size =>
             \/ /\ AcquireHandled
                /\ ~pool_contains(state, Head(command_rx).addr)
                /\ state.pool_size < max_pool_size
                /\ state'.pool_size = state.pool_size + 1
             \/ /\ ReleaseHandled("Discard")
                /\ state'.pool_size = state.pool_size - 1
             \/ /\ state'.elapsed_time = state.elapsed_time + TIMER_INTERVAL_SECS
                /\ metrics'.expired > metrics.expired
                /\ state'.pool_size = state.pool_size - (metrics'.expired - metrics.expired)]_vars

\* C28 witness: a full pool of one slot served its second Acquire from the
\* pool, with nothing kicked out.
Wit_C28_HitAtFullPool ==
    /\ max_pool_size = 1
    /\ state.pool_size = 1
    /\ Pooled = {}
    /\ metrics.lent = 2
    /\ metrics.returned = 1
    /\ metrics.allocated = 1
    /\ metrics.kicked_out = 0
    /\ requests[2].pc = "executing"

\* ------------------------------------------------------- no early expiry
\* C29: a tick advances elapsed_time by the timer interval; it leaves in
\* place, with its connection, every pooled entry whose pooled_time +
\* keepalive_timeout is at least the new elapsed_time, removes the others and
\* nothing is added; the number it returns is the number of entries removed.
\* So an entry pooled at t is still pooled after the tick that brings
\* elapsed_time to t + keepalive_timeout and is removed by the next.
Act_C29_NoEarlyExpiry ==
    [][ret'.op = "tick" =>
          /\ state'.elapsed_time = state.elapsed_time + TIMER_INTERVAL_SECS
          /\ \A k \in Pooled :
                IF k.pooled_time + keepalive_timeout >= state'.elapsed_time
                THEN /\ k \in Pooled'
                     /\ state'.pooled_connections[k] = state.pooled_connections[k]
                ELSE k \notin Pooled'
          /\ Pooled' \subseteq Pooled
          /\ ret'.removed = Cardinality(Pooled \ Pooled')
          /\ state'.pool_size = state.pool_size - ret'.removed]_vars

\* C29 witness: with keepalive_timeout = 1 the tick to elapsed_time = 2
\* removed the entry pooled at 0, which the tick to 1 had left, and left the
\* entry pooled at 1.
Wit_C29_RemovedOnTime ==
    /\ ret.op = "tick"
    /\ ret.removed = 1
    /\ keepalive_timeout = 1
    /\ state.elapsed_time = 2
    /\ state.seqno = 2
    /\ \E k \in Pooled : k.pooled_time = 1

\* ------------------------------------------------- a failed Acquire
\* C30: when the actor fails an Acquire with TemporarilyUnavailable,
\* no_available goes up by one and no other counter moves; pool_size and the
\* pooled connections are as before, no connect task is spawned and no
\* command is sent; a requester still waiting gets the error and no
\* connection.
Act_C30_FailedAcquireFrame ==
    [][(/\ AcquireHandled
        /\ \/ metrics'.no_available # metrics.no_available
           \/ requests'[Head(command_rx).reply_tx].result = "TemporarilyUnavailable") =>
          LET r == Head(command_rx).reply_tx
          IN /\ metrics' = [metrics EXCEPT !.no_available = @ + 1]
             /\ state'.pool_size = state.pool_size
             /\ state'.pooled_connections = state.pooled_connections
             /\ connects' = connects
             /\ command_rx' = Tail(command_rx)
             /\ requests[r].pc = "acquiring" =>
                   requests' = [requests EXCEPT ![r] =
                                  [@ EXCEPT !.pc = "resolved", !.result = "TemporarilyUnavailable"]]
             /\ requests[r].pc # "acquiring" => requests' = requests]_vars

\* C30 witness: the second Acquire failed at a pool whose one slot is lent:
\* one allocated, one lent, nothing kicked out, no connect task.
Wit_C30_FailedAtOneSlot ==
    /\ requests[2].result = "TemporarilyUnavailable"
    /\ metrics.no_available = 1
    /\ metrics.allocated = 1
    /\ metrics.lent = 1
    /\ metrics.kicked_out = 0
    /\ state.pool_size = 1
    /\ connects = {}

\* ------------------------------------------------- the assertion of release
\* The Discard commands in the channel.
Discards == SelectSeq(command_rx, LAMBDA c : c.type = "Discard")

\* C31: assert!(self.pool_size > 0) of release_connection never fails: the
\* actor has not panicked, and pool_size covers the pooled connections,
\* which a tick or an eviction may release, and on top of them every Discard
\* still in the channel; so pool_size is at least 1 whenever a slot is
\* released.
Inv_C31_ReleaseNeverPanics ==
    /\ ~state.panicked
    /\ state.pool_size >= Cardinality(Pooled) + Len(Discards)
    /\ (command_rx # <<>> /\ Head(command_rx).type = "Discard") => state.pool_size >= 1

\* C31 witness: both slots ever allocated were released, one for a closed
\* connection and one for a failed connect, and pool_size is back at 0.
Wit_C31_AllReleased ==
    /\ metrics.closed = 1
    /\ metrics.connect_failed = 1
    /\ metrics.allocated = 2
    /\ state.pool_size = 0
    /\ ~state.panicked

\* ------------------------------------------------- where the slots are
\* C32: every allocated slot is in one place: pool_size is the number of
\* pooled connections, connect tasks in flight, live rented handles, and
\* Reuse and Discard commands sent and not yet handled, taken together; so
\* the pooled connections are never more than pool_size.
Inv_C32_SlotsAccounted ==
    /\ state.pool_size =
          Cardinality(Pooled) + Cardinality(connects) + Cardinality(Handles) + Len(Releases)
    /\ Cardinality(Pooled) <= state.pool_size

\* C32 witness: of two slots one is pooled and the other is held by the
\* handle of a request.
Wit_C32_PooledAndHeld ==
    /\ state.pool_size = 2
    /\ Cardinality(Pooled) = 1
    /\ Cardinality(Handles) = 1
    /\ connects = {}
    /\ command_rx = <<>>

\* ------------------------------------------------- metrics and state agree
\* C33: what the metrics give as the pool size, allocated less the closed,
\* connect_failed, request_failed, expired and kicked_out counters, is the
\* pool_size of the state, after every command and tick.
Inv_C33_MetricsMatchState ==
    /\ metrics.allocated - released_connections(metrics) = state.pool_size
    /\ metrics_pool_size(metrics) = state.pool_size

\* C33 witness: after an expiry and a new allocation the two sizes are 1.
Wit_C33_AfterExpiry ==
    /\ metrics.expired = 1
    /\ metrics.allocated = 2
    /\ state.pool_size = 1
    /\ state.elapsed_time = 1

\* ------------------------------------------------- lent means InUse
\* C34: the connection a requester receives is InUse, whether its connect
\* task made it or the actor took it from the pool; and a handle dropped
\* before its exchange completed sends Discard(RequestFailed), whatever the
\* state the connection was pooled in, so the actor does not pool it again.
Act_C34_LentInUse ==
    [][\A r \in Requests :
          /\ (requests[r].connection = NoConn /\ requests'[r].connection # NoConn) =>
                requests'[r].connection.state = InUse
          /\ (/\ requests[r].pc \in {"executing", "timedout"}
              /\ requests[r].connection # NoConn
              /\ requests'[r].pc = "dropped") =>
                /\ requests[r].connection.state = InUse
                /\ command_rx' = command_rx \o <<DiscardCmd(ReasonRequestFailed)>>
                /\ Pooled' = Pooled]_vars

\* C34 witness: a connection lent from the pool was dropped before its
\* exchange completed and counted as request_failed; nothing is pooled.
Wit_C34_LentFromPoolFailed ==
    /\ metrics.lent = 2
    /\ metrics.allocated = 1
    /\ metrics.request_failed = 1
    /\ Pooled = {}
    /\ state.pool_size = 0

\* ------------------------------------------------- no peer without an entry
\* C35: for every peer that has a pooled connection the heap holds an entry
\* for the peer's oldest pooled key; so discard_oldest_pooled_connection
\* returns None only when nothing is pooled, and returns a pooled connection
\* and releases its slot otherwise.
Act_C35_OldestInHeap ==
    /\ [](\A addr \in Addrs :
             pool_contains(state, addr) =>
                \E i \in DOMAIN state.timeout_queue :
                   {to_pool_key(state.timeout_queue[i])}
                      = get_oldest(state.pooled_connections, addr))
    /\ [][ret'.op = "discard" =>
             IF Pooled = {}
             THEN ret'.conn = NoConn /\ state'.pool_size = state.pool_size
             ELSE /\ \E k \in Pooled :
                        /\ ret'.conn = state.pooled_connections[k]
                        /\ Pooled' = Pooled \ {k}
                  /\ state'.pool_size = state.pool_size - 1]_vars

\* C35 witness: an eviction removed a pooled connection; other connections
\* stay pooled, and the heap still holds the entry of a key no longer pooled.
Wit_C35_EvictedBehindStale ==
    /\ ret.op = "discard"
    /\ ret.conn # NoConn
    /\ Pooled # {}
    /\ \E i \in DOMAIN state.timeout_queue :
          to_pool_key(state.timeout_queue[i]) \notin Pooled

\* ------------------------------------------------- the size of the heap
\* C36 as claimed: while one connection of one peer is lent, pooled again
\* and followed by a tick, over and over, the heap never holds more than
\* keepalive_timeout (in ticks) + 2 entries.
Cex_C36_HeapBounded ==
    Len(state.timeout_queue) <= keepalive_timeout + 2

====
